---------------------------- MODULE Spec2Model ----------------------------
(***************************************************************************)
(* Quantrexclaw v5: the analysis-and-decision pipeline.                    *)
(*                                                                         *)
(*   utils/ict.ts        detectSwings, detectFVGs                          *)
(*   utils/liquidity.ts  detectLiquiditySweeps, the five agents,           *)
(*                       runCouncil                                        *)
(*   hooks/useKillzone.ts runBacktest                                      *)
(*                                                                         *)
(* Conventions.  Arrays are sequences; the code's 0-based index i is       *)
(* position i+1 of the sequence, and At(s, i) reads it, so that every      *)
(* index below is the code's.  Prices are whole ticks.  A quotient the     *)
(* code computes in floating point is kept exact: either both sides of the *)
(* comparison it feeds are multiplied out, or the value is held as a       *)
(* fraction [n, d].  A candle record carries the fields the modelled       *)
(* function reads.                                                         *)
(***************************************************************************)
EXTENDS Integers, Sequences, FiniteSets, TLC

VARIABLES
    pc,         \* position of the function under way
    candles,    \* Candle[]: the input array
    leftLen,    \* detectSwings / detectLiquiditySweeps: left lookback
    rightLen,   \* detectSwings / detectLiquiditySweeps: right lookback
    swings,     \* SwingPoint[]: what detectSwings returned
    timeframe,  \* detectLiquiditySweeps: the timeframe stamped on the levels
    levels,     \* detectLiquiditySweeps: LiquidityLevel[] pushed so far
    level,      \* detectLiquiditySweeps: the level under construction
    swingK,     \* detectLiquiditySweeps: position of for (const swing of swings)
    scanI,      \* detectLiquiditySweeps: i of the sweep scan
    minSizePercent, \* detectFVGs: the smallest gap kept, a fraction of a percent
    fvgs,       \* detectFVGs: FairValueGap[]
    fvgK,       \* detectFVGs: position of for (const fvg of fvgs)
    fillI,      \* detectFVGs: i of the fill scan
    agentIn,    \* run*Agent: the arguments of the call
    signal,     \* run*Agent: the AgentSignal returned
    agents,     \* runCouncil: AgentSignal[], its argument
    council,    \* runCouncil: the AgentCouncil returned
    config,     \* runBacktest: BacktestConfig, the fields read
    len,        \* runBacktest: candles.length
    walkI,      \* runBacktest: i of the walk-forward loop
    runBalance, \* runBacktest: balance, the running balance, a fraction
    trades,     \* runBacktest: Trade[]
    cur,        \* runBacktest: the locals of the iteration that trades
    scanJ,      \* runBacktest: j of the outcome scan
    fc,         \* runBacktest: candles[j], the candle the scan read last
    outcome,    \* runBacktest: outcome
    exitPrice,  \* runBacktest: exitPrice
    metrics,    \* runBacktest: the metrics of the result, calcMetrics' return value
    sps,        \* detectOrderBlocks: structurePoints, its argument
    blocks,     \* detectOrderBlocks: OrderBlock[]
    obK,        \* detectOrderBlocks: position of for (const ob of blocks)
    obScan,     \* detectOrderBlocks: i of the mitigation scan
    ticker,     \* App: ticker of useMarketData, the fields read; Null before the first tick
    analysis,   \* App: the analysis memo, the fields read; Null under 50 candles
    appKillzone, \* App: killzone of the useKillzone hook
    appCouncil, \* App: the council memo
    appTrades,  \* App: trades, the journal, the newest first
    execMode,   \* App: execMode
    confirmText, \* App: confirmText
    showConfirm, \* App: showConfirm
    trend,      \* detectMarketStructure: trend
    lastHigh,   \* detectMarketStructure: lastHigh, Undefined for undefined
    lastLow,    \* detectMarketStructure: lastLow, Undefined for undefined
    msI,        \* detectMarketStructure: i of the scan
    msPoints,   \* detectMarketStructure: points, StructurePoint[]
    fvgSetups,  \* detectSweepFVGSetups: setups, SweepFVGSetup[]
    mounted,    \* useMarketData: the component using the hook is mounted
    symbol,     \* useMarketData: the symbol and timeframe the hook is called with
    activeRef,  \* useMarketData: activeRef.current
    symRef,     \* useMarketData: symRef.current and tfRef.current
    wsRef,      \* useMarketData: wsRef.current, the index of a socket or 0 for null
    reconnRef,  \* useMarketData: reconnRef.current, the id of a timer or 0 for null
    sockets,    \* every WebSocket constructed, in order
    loads,      \* the loadRest() calls of the mount effect still awaiting
    timers,     \* the setTimeout(connectWS, 3000) timers pending
    connected,  \* useMarketData: connected
    klineTime   \* the open time of the interval the exchange is in

swingVars == <<candles, leftLen, rightLen, swings>>

sweepVars == <<timeframe, levels, level, swingK, scanI>>

fvgVars == <<minSizePercent, fvgs, fvgK, fillI>>

agentVars == <<agentIn, signal>>

councilVars == <<agents, council>>

backtestVars ==
    <<config, len, walkI, runBalance, trades, cur, scanJ, fc, outcome, exitPrice, metrics>>

obVars == <<sps, blocks, obK, obScan>>

appVars ==
    <<ticker, analysis, appKillzone, appCouncil, appTrades, execMode, confirmText, showConfirm>>

msVars == <<trend, lastHigh, lastLow, msI, msPoints>>

mdVars ==
    <<mounted, symbol, activeRef, symRef, wsRef, reconnRef, sockets, loads, timers, connected,
      klineTime>>

moreVars == <<msVars, fvgSetups, mdVars>>

restVars == <<obVars, appVars, moreVars>>

decisionVars == <<agentVars, councilVars, backtestVars, restVars>>

vars == <<pc, swingVars, sweepVars, fvgVars, decisionVars>>

None == "none"

\* null where the code has an object or null
Null == [isNull |-> TRUE]

\* An optional field: Undefined when absent, Some(v) when set to v.
Undefined == <<>>

Some(v) == <<v>>

(***************************************************************************)
(* Helpers for the code's arrays.                                          *)
(***************************************************************************)
At(s, i) == s[i + 1]

Min(a, b) == IF a <= b THEN a ELSE b

Max(a, b) == IF a >= b THEN a ELSE b

Abs(a) == IF a < 0 THEN -a ELSE a

\* All sequences over S of length 0..n.
SeqsUpTo(S, n) == UNION {[1..k -> S] : k \in 0..n}

(***************************************************************************)
(* Exact fractions [n, d] with d > 0, for the code's quotients.            *)
(***************************************************************************)
Frac(n, d) == [n |-> n, d |-> d]

FracLeq(a, b) == a.n * b.d <= b.n * a.d

FracLess(a, b) == a.n * b.d < b.n * a.d

FracEq(a, b) == a.n * b.d = b.n * a.d

(***************************************************************************)
(* Bounds of the explored inputs.                                          *)
(***************************************************************************)
MaxSwingCandles == 5    \* longest candle array given to the swing and sweep detectors
MaxSwingPrice == 3      \* highs of those candles are 1..MaxSwingPrice
MaxLookback == 1        \* leftLen, rightLen are at most MaxLookback
MaxAgentItems == 2      \* longest array given to an agent called on its own
MaxAgentFvgs == 1       \* most gaps given to runArrayAgent called on its own
MaxCandles == 100       \* longest candle array given to runBacktest
MaxObCandles == 5       \* longest candle array given to detectOrderBlocks
MaxStructurePoints == 1 \* most structure points given to detectOrderBlocks
MaxMetricTrades == 3    \* longest trade list given to calcMetrics called on its own
MaxGapCandles == 4      \* longest candle array of the gap-size specification of detectFVGs
MaxAppTrades == 3       \* longest journal of the live app
MaxEffects == 2         \* most runs of the mount effect of useMarketData
MaxSockets == 3         \* most WebSockets constructed
MaxKlineTicks == 2      \* most intervals the exchange moves on by
MaxQuiet == 4           \* most quiet candles between a sweep and the candles after it
MaxMsCandles == 6       \* longest candle array given to detectMarketStructure

(***************************************************************************)
(* utils/ict.ts: detectSwings                                              *)
(***************************************************************************)
\* The inner loop of the HIGH test: any other candle of [i-left, i+right]
\* with high >= c.high clears isHigh.
IsPivotHighTies(cs, i, left, right) ==
    \A j \in (i - left)..(i + right) :
        j # i => ~(At(cs, j).high > At(cs, i).high)

IsPivotHigh(cs, i, left, right) ==
    \A j \in (i - left)..(i + right) :
        j # i => ~(At(cs, j).high >= At(cs, i).high)

IsPivotLow(cs, i, left, right) ==
    \A j \in (i - left)..(i + right) :
        j # i => ~(At(cs, j).low <= At(cs, i).low)

\* What one turn of the outer loop pushes for index i: HIGH first, then LOW.
SwingsAt(cs, i, left, right) ==
    (IF IsPivotHigh(cs, i, left, right)
        THEN <<[index |-> i, time |-> At(cs, i).time,
                price |-> At(cs, i).high, type |-> "HIGH"]>>
        ELSE <<>>)
    \o
    (IF IsPivotLow(cs, i, left, right)
        THEN <<[index |-> i, time |-> At(cs, i).time,
                price |-> At(cs, i).low, type |-> "LOW"]>>
        ELSE <<>>)

\* for (let i = leftLen; i < candles.length - rightLen; i++)
RECURSIVE SwingLoop(_, _, _, _)
SwingLoop(cs, i, left, right) ==
    IF i < Len(cs) - right
        THEN SwingsAt(cs, i, left, right) \o SwingLoop(cs, i + 1, left, right)
        ELSE <<>>

\* Array.prototype.sort with (a, b) => a.index - b.index: stable, ascending.
RECURSIVE InsertByIndex(_, _)
InsertByIndex(sorted, x) ==
    IF sorted = <<>> THEN <<x>>
    ELSE IF Head(sorted).index - x.index > 0
        THEN <<x>> \o sorted
        ELSE <<Head(sorted)>> \o InsertByIndex(Tail(sorted), x)

RECURSIVE SortByIndex(_)
SortByIndex(s) ==
    IF s = <<>> THEN <<>>
    ELSE InsertByIndex(SortByIndex(SubSeq(s, 1, Len(s) - 1)), s[Len(s)])

DetectSwings(cs, left, right) == SortByIndex(SwingLoop(cs, left, left, right))

(***************************************************************************)
(* Values of the variables a specification does not use.                   *)
(***************************************************************************)
IdleSwings == candles = <<>> /\ leftLen = 0 /\ rightLen = 0 /\ swings = <<>>

\* No level is under construction.
NoLevel == [status |-> "NONE"]

IdleSweeps ==
    timeframe = None /\ levels = <<>> /\ level = NoLevel /\ swingK = 0 /\ scanI = 0

IdleFvgs == minSizePercent = Frac(0, 1) /\ fvgs = <<>> /\ fvgK = 0 /\ fillI = 0

\* No call is under way, nothing was returned.
NoSignal == [agent |-> "NONE"]

NoCouncil == [grade |-> "NONE"]

IdleAgents == agentIn = NoSignal /\ signal = NoSignal

IdleCouncil == agents = <<>> /\ council = NoCouncil

NoTrade == [direction |-> "NONE"]

NoCandle == [high |-> 0, low |-> 0]

IdleBacktest ==
    /\ config = Null /\ len = 0 /\ walkI = 0 /\ runBalance = Frac(0, 1) /\ trades = <<>>
    /\ cur = NoTrade /\ scanJ = 0 /\ fc = NoCandle /\ outcome = None /\ exitPrice = 0
    /\ metrics = Null

IdleOrderBlocks == sps = <<>> /\ blocks = <<>> /\ obK = 0 /\ obScan = 0

IdleApp ==
    /\ ticker = Null /\ analysis = Null /\ appKillzone = Null /\ appCouncil = Null
    /\ appTrades = <<>> /\ execMode = "SIMULATE" /\ confirmText = "" /\ showConfirm = FALSE

IdleStructure ==
    trend = None /\ lastHigh = Undefined /\ lastLow = Undefined /\ msI = 0 /\ msPoints = <<>>

IdleMarketData ==
    /\ mounted = FALSE /\ symbol = 0 /\ activeRef = FALSE /\ symRef = 0 /\ wsRef = 0
    /\ reconnRef = 0 /\ sockets = <<>> /\ loads = {} /\ timers = {} /\ connected = FALSE
    /\ klineTime = 0

IdleMore == IdleStructure /\ fvgSetups = <<>> /\ IdleMarketData

IdleRest == IdleOrderBlocks /\ IdleApp /\ IdleMore

IdleDecision == IdleAgents /\ IdleCouncil /\ IdleBacktest /\ IdleRest

(***************************************************************************)
(* Specification of detectSwings: any bounded array, any lookbacks.        *)
(***************************************************************************)
\* Candles as detectSwings reads them: a high and a low that lies at most one
\* tick under it; time is the bar number.
SwingBars ==
    {b \in [high : 1..MaxSwingPrice, low : 1..MaxSwingPrice] : b.high - b.low \in {0, 1}}

Timed(bars) == [k \in 1..Len(bars) |-> [time |-> k - 1, high |-> bars[k].high, low |-> bars[k].low]]

\* The five-candle scenario of the spec: highs 10, 12, 15, 11, 9.
ScenarioHighs == <<10, 12, 15, 11, 9>>

ScenarioSwingCandles ==
    {[k \in 1..5 |-> [time |-> k - 1, high |-> ScenarioHighs[k], low |-> lows[k]]] :
        lows \in [1..5 -> 1..2]}

InitSwings ==
    /\ pc = "detectSwings"
    /\ \/ \E bars \in SeqsUpTo(SwingBars, MaxSwingCandles) : candles = Timed(bars)
       \/ candles \in ScenarioSwingCandles
    /\ leftLen \in 0..MaxLookback
    /\ rightLen \in 0..MaxLookback
    /\ swings = <<>>
    /\ IdleSweeps
    /\ IdleFvgs
    /\ IdleDecision

RunDetectSwings ==
    /\ pc = "detectSwings"
    /\ swings' = DetectSwings(candles, leftLen, rightLen)
    /\ pc' = "returned"
    /\ UNCHANGED <<candles, leftLen, rightLen>>
    /\ UNCHANGED <<sweepVars, fvgVars, decisionVars>>

NextSwings == RunDetectSwings

SpecSwings == InitSwings /\ [][NextSwings]_vars

(***************************************************************************)
(* C9: detectSwings flags index i as a HIGH pivot iff leftLen <= i <       *)
(* length - rightLen and candles[i].high is strictly greater than the high *)
(* of every other candle of [i-leftLen, i+rightLen]; a LOW pivot iff,      *)
(* within the same range, its low is strictly less than every other low.   *)
(* The result is ordered by index.  With highs 10, 12, 15, 11, 9 and       *)
(* leftLen = rightLen = 1 only index 2 is flagged HIGH.                    *)
(***************************************************************************)
Flagged(kind) == {swings[k].index : k \in {k \in 1..Len(swings) : swings[k].type = kind}}

InRange(i) == leftLen <= i /\ i < Len(candles) - rightLen

Window(i) == ((i - leftLen)..(i + rightLen)) \ {i}

C9_SwingsAreStrictExtrema ==
    pc = "returned" =>
        /\ \A i \in 0..(Len(candles) - 1) :
            /\ i \in Flagged("HIGH") <=>
                    /\ InRange(i)
                    /\ \A j \in Window(i) : At(candles, j).high < At(candles, i).high
            /\ i \in Flagged("LOW") <=>
                    /\ InRange(i)
                    /\ \A j \in Window(i) : At(candles, j).low > At(candles, i).low
        /\ \A k \in 1..Len(swings) :
            /\ swings[k].index \in 0..(Len(candles) - 1)
            /\ swings[k].time = At(candles, swings[k].index).time
            /\ swings[k].price = IF swings[k].type = "HIGH"
                                    THEN At(candles, swings[k].index).high
                                    ELSE At(candles, swings[k].index).low
            /\ k > 1 => swings[k - 1].index <= swings[k].index
        /\ (candles \in ScenarioSwingCandles /\ leftLen = 1 /\ rightLen = 1)
                => Flagged("HIGH") = {2}

\* Reached: the scenario's pass has returned, with index 2 its only HIGH.
C9_Witness ==
    /\ pc = "returned"
    /\ leftLen = 1 /\ rightLen = 1
    /\ candles \in ScenarioSwingCandles
    /\ Flagged("HIGH") = {2}

(***************************************************************************)
(* utils/liquidity.ts: detectLiquiditySweeps                               *)
(***************************************************************************)
\* approach > 0.997 && approach < 1.003, where approach is c.high / price
\* for a HIGH swing and price / c.low for a LOW swing.
Approaches(swing, c) ==
    IF swing.type = "HIGH"
        THEN 1000 * c.high > 997 * swing.price /\ 1000 * c.high < 1003 * swing.price
        ELSE 1000 * swing.price > 997 * c.low /\ 1000 * swing.price < 1003 * c.low

\* The first loop over the candles after the swing: testCount.
TestCount(cs, swing) ==
    Cardinality({i \in (swing.index + 1)..(Len(cs) - 1) : Approaches(swing, At(cs, i))})

\* const level = { ..., status: 'ACTIVE', strength: Math.min(100, 30 + testCount * 15) }
\* sweepTime and sweepCandle are absent until the scan sets them.
NewLevel(cs, swing, tf) ==
    [id |-> <<"liq", tf, swing.type, swing.time>>,
     price |-> swing.price,
     time |-> swing.time,
     type |-> swing.type,
     status |-> "ACTIVE",
     strength |-> Min(100, 30 + TestCount(cs, swing) * 15),
     timeframe |-> tf,
     sweepTime |-> Undefined,
     sweepCandle |-> Undefined]

\* swing.type === 'HIGH' && c.high > swing.price, or
\* swing.type === 'LOW' && c.low < swing.price
SweepsOrTouches(swing, c) ==
    \/ swing.type = "HIGH" /\ c.high >= swing.price
    \/ swing.type = "LOW" /\ c.low <= swing.price

Sweeps(swing, c) ==
    \/ swing.type = "HIGH" /\ c.high > swing.price
    \/ swing.type = "LOW" /\ c.low < swing.price

\* swings = detectSwings(candles, leftLen, rightLen); levels = []
SweepsEnter ==
    /\ pc = "detectLiquiditySweeps"
    /\ swings' = DetectSwings(candles, leftLen, rightLen)
    /\ levels' = <<>>
    /\ swingK' = 0
    /\ pc' = "forSwing"
    /\ UNCHANGED <<candles, leftLen, rightLen, timeframe, level, scanI>>
    /\ UNCHANGED <<fvgVars, decisionVars>>

\* One turn of for (const swing of swings) up to the sweep scan, or the return.
SweepsForSwing ==
    /\ pc = "forSwing"
    /\ IF swingK < Len(swings)
        THEN /\ level' = NewLevel(candles, At(swings, swingK), timeframe)
             /\ scanI' = At(swings, swingK).index + 1
             /\ pc' = "sweepScan"
        ELSE /\ level' = NoLevel
             /\ scanI' = 0
             /\ pc' = "returned"
    /\ UNCHANGED <<swingVars, timeframe, levels, swingK>>
    /\ UNCHANGED <<fvgVars, decisionVars>>

\* One turn of the sweep scan: a sweeping candle marks the level and breaks.
SweepsScanStep ==
    /\ pc = "sweepScan"
    /\ scanI < Len(candles)
    /\ IF Sweeps(At(swings, swingK), At(candles, scanI))
        THEN /\ level' = [level EXCEPT !.status = "SWEPT",
                                       !.sweepTime = Some(At(candles, scanI).time),
                                       !.sweepCandle = Some(At(candles, scanI))]
             /\ pc' = "push"
             /\ UNCHANGED scanI
        ELSE /\ scanI' = scanI + 1
             /\ UNCHANGED <<level, pc>>
    /\ UNCHANGED <<swingVars, timeframe, levels, swingK>>
    /\ UNCHANGED <<fvgVars, decisionVars>>

\* The scan ran off the end of the array without a sweep.
SweepsScanEnd ==
    /\ pc = "sweepScan"
    /\ scanI >= Len(candles)
    /\ pc' = "push"
    /\ UNCHANGED <<swingVars, sweepVars>>
    /\ UNCHANGED <<fvgVars, decisionVars>>

\* levels.push(level), the end of this turn of the loop
SweepsPush ==
    /\ pc = "push"
    /\ levels' = Append(levels, level)
    /\ level' = NoLevel
    /\ swingK' = swingK + 1
    /\ pc' = "forSwing"
    /\ UNCHANGED <<swingVars, timeframe, scanI>>
    /\ UNCHANGED <<fvgVars, decisionVars>>

(***************************************************************************)
(* Specification of detectLiquiditySweeps.                                 *)
(***************************************************************************)
InitSweeps ==
    /\ pc = "detectLiquiditySweeps"
    /\ \E bars \in SeqsUpTo(SwingBars, MaxSwingCandles) : candles = Timed(bars)
    /\ leftLen \in 1..MaxLookback
    /\ rightLen \in 1..MaxLookback
    /\ swings = <<>>
    /\ timeframe = "15m"
    /\ levels = <<>> /\ level = NoLevel /\ swingK = 0 /\ scanI = 0
    /\ IdleFvgs
    /\ IdleDecision

NextSweeps ==
    \/ SweepsEnter
    \/ SweepsForSwing
    \/ SweepsScanStep
    \/ SweepsScanEnd
    \/ SweepsPush

SpecSweeps == InitSweeps /\ [][NextSweeps]_vars

(***************************************************************************)
(* C10: for every liquidity level built by detectLiquiditySweeps from a    *)
(* swing at index s, the status is SWEPT iff some candle j > s has         *)
(* high > price (HIGH level) or low < price (LOW level); a SWEPT level     *)
(* carries the time and the candle of the smallest such j, an ACTIVE level *)
(* carries neither; during the scan the status goes ACTIVE -> SWEPT at     *)
(* most once and never back, and a pushed level is not touched again.      *)
(***************************************************************************)
\* The candles after swing sw that cross its price.
Crossers(sw) ==
    {j \in (sw.index + 1)..(Len(candles) - 1) :
        IF sw.type = "HIGH" THEN At(candles, j).high > sw.price
                            ELSE At(candles, j).low < sw.price}

FirstOf(S) == CHOOSE j \in S : \A k \in S : j <= k

LevelMatchesSwing(lv, sw) ==
    /\ lv.price = sw.price /\ lv.type = sw.type /\ lv.time = sw.time
    /\ lv.status \in {"ACTIVE", "SWEPT"}
    /\ lv.status = "SWEPT" <=> Crossers(sw) # {}
    /\ lv.status = "SWEPT" =>
            /\ lv.sweepTime = Some(At(candles, FirstOf(Crossers(sw))).time)
            /\ lv.sweepCandle = Some(At(candles, FirstOf(Crossers(sw))))
    /\ lv.status = "ACTIVE" => lv.sweepTime = Undefined /\ lv.sweepCandle = Undefined

C10_LevelsState ==
    /\ Len(levels) <= Len(swings)
    /\ \A k \in 1..Len(levels) : LevelMatchesSwing(levels[k], swings[k])
    /\ pc = "returned" => Len(levels) = Len(swings)
    /\ pc = "push" => LevelMatchesSwing(level, At(swings, swingK))

C10_LevelsStep ==
    /\ \A k \in 1..Len(levels) : Len(levels') >= k /\ levels'[k] = levels[k]
    /\ (level.status = "SWEPT" /\ level' # NoLevel) => level' = level

C10_SweptOnceAtFirstCross == []C10_LevelsState /\ [][C10_LevelsStep]_vars

\* Reached: a returned pass holding a SWEPT level whose first crossing candle
\* is not the last one (a later candle crosses too) beside an ACTIVE level.
C10_Witness ==
    /\ pc = "returned"
    /\ \E k \in 1..Len(levels) :
        /\ levels[k].status = "SWEPT"
        /\ Cardinality(Crossers(swings[k])) >= 2
    /\ \E k \in 1..Len(levels) : levels[k].status = "ACTIVE"

(***************************************************************************)
(* utils/ict.ts: detectFVGs                                                *)
(***************************************************************************)
\* The size test wanting more than minSizePercent.
GapIsLarger(size, base, minPct) == size * 100 * minPct.d > minPct.n * base

\* gapSize >= minSizePercent, gapSize being size / base * 100
GapIsLargeEnough(size, base, minPct) == size * 100 * minPct.d >= minPct.n * base

NewFvg(kind, top, bottom, curr, tf) ==
    [id |-> <<"fvg", kind, curr.time>>,
     type |-> kind,
     top |-> top,
     bottom |-> bottom,
     midpoint |-> Frac(top + bottom, 2),
     time |-> curr.time,
     filled |-> FALSE,
     fillPercent |-> Frac(0, 1),
     timeframe |-> tf]

\* One turn of the detection loop at i: the bullish test, then the bearish.
FvgsAt(cs, i, tf, minPct) ==
    LET prev == At(cs, i - 1)
        curr == At(cs, i)
        next == At(cs, i + 1)
    IN  (IF /\ next.low > prev.high
            /\ GapIsLargeEnough(next.low - prev.high, prev.high, minPct)
            THEN <<NewFvg("BULLISH", next.low, prev.high, curr, tf)>>
            ELSE <<>>)
        \o
        (IF /\ next.high < prev.low
            /\ GapIsLargeEnough(prev.low - next.high, prev.low, minPct)
            THEN <<NewFvg("BEARISH", prev.low, next.high, curr, tf)>>
            ELSE <<>>)

\* for (let i = 1; i < candles.length - 1; i++)
RECURSIVE FvgLoop(_, _, _, _)
FvgLoop(cs, i, tf, minPct) ==
    IF i < Len(cs) - 1
        THEN FvgsAt(cs, i, tf, minPct) \o FvgLoop(cs, i + 1, tf, minPct)
        ELSE <<>>

\* candles.findIndex(c => c.time >= t): the first such index, -1 when none.
FindIndexTimeGeq(cs, t) ==
    LET hits == {i \in 0..(Len(cs) - 1) : At(cs, i).time >= t}
    IN  IF hits = {} THEN -1 ELSE CHOOSE i \in hits : \A j \in hits : i <= j

\* What the fill scan's candle c does to the gap: the gap after it, and
\* whether the scan breaks.  (penetration / (top - bottom)) * 100 is kept as
\* the fraction penetration * 100 over top - bottom.
FillByCandle(fvg, c) ==
    LET height == fvg.top - fvg.bottom
        touched == IF fvg.type = "BULLISH" THEN c.low <= fvg.top ELSE c.high >= fvg.bottom
        through == IF fvg.type = "BULLISH" THEN c.low <= fvg.bottom ELSE c.high >= fvg.top
        penetration == IF fvg.type = "BULLISH"
                          THEN Min(fvg.top - c.low, height)
                          ELSE Min(c.high - fvg.bottom, height)
    IN  IF ~touched THEN fvg
        ELSE IF through THEN [fvg EXCEPT !.filled = TRUE, !.fillPercent = Frac(100, 1)]
        ELSE [fvg EXCEPT !.fillPercent = Frac(penetration * 100, height)]

\* The detection loop.
FvgsDetect ==
    /\ pc = "detectFVGs"
    /\ fvgs' = FvgLoop(candles, 1, timeframe, minSizePercent)
    /\ fvgK' = 0
    /\ pc' = "forFvg"
    /\ UNCHANGED <<minSizePercent, fillI>>
    /\ UNCHANGED <<swingVars, sweepVars, decisionVars>>

\* One turn of for (const fvg of fvgs) up to the fill scan, or the return.
FvgsForFvg ==
    /\ pc = "forFvg"
    /\ IF fvgK < Len(fvgs)
        THEN /\ fillI' = FindIndexTimeGeq(candles, At(fvgs, fvgK).time) + 1
             /\ pc' = "fillScan"
        ELSE /\ fillI' = 0
             /\ pc' = "returned"
    /\ UNCHANGED <<minSizePercent, fvgs, fvgK>>
    /\ UNCHANGED <<swingVars, sweepVars, decisionVars>>

\* One candle of the fill scan; a candle through the far edge breaks.
FvgsFillStep ==
    /\ pc = "fillScan"
    /\ fillI < Len(candles)
    /\ LET after == FillByCandle(At(fvgs, fvgK), At(candles, fillI))
       IN  /\ fvgs' = [fvgs EXCEPT ![fvgK + 1] = after]
           /\ IF after.filled
                THEN fvgK' = fvgK + 1 /\ pc' = "forFvg" /\ UNCHANGED fillI
                ELSE fillI' = fillI + 1 /\ UNCHANGED <<fvgK, pc>>
    /\ UNCHANGED minSizePercent
    /\ UNCHANGED <<swingVars, sweepVars, decisionVars>>

\* The fill scan ran off the end of the array.
FvgsFillEnd ==
    /\ pc = "fillScan"
    /\ fillI >= Len(candles)
    /\ fvgK' = fvgK + 1
    /\ pc' = "forFvg"
    /\ UNCHANGED <<minSizePercent, fvgs, fillI>>
    /\ UNCHANGED <<swingVars, sweepVars, decisionVars>>

(***************************************************************************)
(* Specification of detectFVGs, with the default minSizePercent 0.05.      *)
(***************************************************************************)
InitFvgs ==
    /\ pc = "detectFVGs"
    /\ \E bars \in SeqsUpTo(SwingBars, MaxSwingCandles) : candles = Timed(bars)
    /\ leftLen = 0 /\ rightLen = 0 /\ swings = <<>>
    /\ timeframe = "15m"
    /\ levels = <<>> /\ level = NoLevel /\ swingK = 0 /\ scanI = 0
    /\ minSizePercent = Frac(5, 100)
    /\ fvgs = <<>> /\ fvgK = 0 /\ fillI = 0
    /\ IdleDecision

NextFvgs ==
    \/ FvgsDetect
    \/ FvgsForFvg
    \/ FvgsFillStep
    \/ FvgsFillEnd

SpecFvgs == InitFvgs /\ [][NextFvgs]_vars

(***************************************************************************)
(* C3: during the forward fill scan of a gap, fillPercent never decreases  *)
(* from one scanned candle to the next, it is exactly 100 from the moment  *)
(* filled becomes true, and filled never reverts to false.                 *)
(***************************************************************************)
C3_FilledIsPinned ==
    \A k \in 1..Len(fvgs) : fvgs[k].filled => FracEq(fvgs[k].fillPercent, Frac(100, 1))

C3_FillStep ==
    \A k \in 1..Len(fvgs) :
        Len(fvgs') >= k =>
            /\ FracLeq(fvgs[k].fillPercent, fvgs'[k].fillPercent)
            /\ fvgs[k].filled => fvgs'[k].filled

C3_FillNeverDecreases == []C3_FilledIsPinned /\ [][C3_FillStep]_vars

(***************************************************************************)
(* utils/agents.ts: what the five agents share.                            *)
(*                                                                         *)
(* WEIGHTS is held in hundredths, a score as a fraction: the Liquidity     *)
(* agent's score is a quotient, the other four are whole numbers over 1.   *)
(* label, details and reasoning are texts derived from the score and are   *)
(* left out of the signal.                                                 *)
(***************************************************************************)
WEIGHTS == [STRUCTURE |-> 25, LIQUIDITY |-> 25, ARRAY |-> 20, RISK |-> 15, EXECUTION |-> 15]

\* array.slice(-n)
LastN(s, n) == SubSeq(s, Max(1, Len(s) - n + 1), Len(s))

\* array.filter(P).length
Count(s, P(_)) == Cardinality({k \in 1..Len(s) : P(s[k])})

RECURSIVE SeqSum(_)
SeqSum(s) == IF s = <<>> THEN 0 ELSE Head(s) + SeqSum(Tail(s))

\* array.sort(cmp), which is stable: Less(a, b) is cmp(a, b) < 0.
StableSort(s, Less(_, _)) ==
    LET n == Len(s)
        Rank(k) == Cardinality({j \in 1..n :
                       \/ Less(s[j], s[k])
                       \/ ~Less(s[k], s[j]) /\ j < k})
    IN  [r \in 1..n |-> s[CHOOSE k \in 1..n : Rank(k) = r - 1]]

FracPlus(f, k) == Frac(f.n + k * f.d, f.d)

RECURSIVE GCD(_, _)
GCD(a, b) == IF b = 0 THEN a ELSE GCD(b, a % b)

\* The same fraction in lowest terms, which keeps the products of a comparison small.
Reduce(f) == LET g == GCD(Abs(f.n), f.d) IN IF g = 0 THEN f ELSE Frac(f.n \div g, f.d \div g)

\* A quotient n / d against a whole number k, as IEEE decides it when d = 0:
\* n / 0 is +Infinity for n > 0, and 0 / 0 is NaN, which no comparison admits.
RatioGeq(n, d, k) == IF d = 0 THEN n > 0 ELSE n >= k * d

\* score = Math.max(0, Math.min(100, score)), left undone
NoClamp(x) == x

\* score = Math.max(0, Math.min(100, score))
Clamp(x) == Max(0, Min(100, x))

ClampFrac(f) ==
    IF f.n < 0 THEN Frac(0, 1)
    ELSE IF f.n > 100 * f.d THEN Frac(100, 1)
    ELSE f

Signal(name, score, bullish) ==
    [agent |-> name, score |-> score, bullish |-> bullish, weight |-> WEIGHTS[name]]

(***************************************************************************)
(* utils/agents.ts: runStructureAgent                                      *)
(***************************************************************************)
\* sp.type.includes('BULL'), .includes('BEAR'), .includes('CHoCH')
IsBull(t) == t \in {"BOS_BULL", "CHoCH_BULL", "MSS_BULL"}

IsBear(t) == t \in {"BOS_BEAR", "CHoCH_BEAR", "MSS_BEAR"}

IsChoCH(t) == t \in {"CHoCH_BULL", "CHoCH_BEAR"}

\* The score before the clamp.
StructureScore(cs, structurePoints, direction) ==
    LET recent == LastN(structurePoints, 8)
        Aligned(sp) == IF direction = "LONG" THEN IsBull(sp.type)
                       ELSE IF direction = "SHORT" THEN IsBear(sp.type)
                       ELSE FALSE
        alignedScore == Min(40, Count(recent, Aligned) * 12)
        lastSP == recent[Len(recent)]
        lastAligned == IF direction = "LONG" THEN IsBull(lastSP.type) ELSE IsBear(lastSP.type)
        hasChoCH == \E k \in 1..Len(recent) : IsChoCH(recent[k].type)
        confirmed == Count(recent, LAMBDA sp : sp.confirmed /\
                         (IF direction = "LONG" THEN IsBull(sp.type) ELSE IsBear(sp.type)))
        bullish5 == Count(LastN(cs, 5), LAMBDA c : c.close > c.open)
    IN  alignedScore
        + (IF Len(recent) = 0 THEN 0 ELSE IF lastAligned THEN 20 ELSE -10)
        + (IF hasChoCH THEN 15 ELSE 0)
        + (IF confirmed > 0 THEN 15 ELSE 0)
        + (IF direction = "LONG" /\ bullish5 >= 3 THEN 10 ELSE 0)
        + (IF direction = "SHORT" /\ bullish5 <= 2 THEN 10 ELSE 0)

RunStructureAgent(cs, structurePoints, direction) ==
    Signal("STRUCTURE",
           Frac(Clamp(StructureScore(cs, structurePoints, direction)), 1),
           direction = "LONG")

(***************************************************************************)
(* utils/liquidity.ts: scoreLiquidityMagnet; utils/agents.ts:              *)
(* runLiquidityAgent                                                       *)
(***************************************************************************)
\* TF_WEIGHT, in hundredths
TF_WEIGHT ==
    ("1w" :> 100) @@ ("1d" :> 85) @@ ("4h" :> 70) @@ ("1h" :> 60) @@ ("30m" :> 50)
    @@ ("15m" :> 45) @@ ("5m" :> 35) @@ ("3m" :> 30) @@ ("1m" :> 25)

\* TF_WEIGHT[l.timeframe] ?? 0.3
TfWeight(tf) == IF tf \in DOMAIN TF_WEIGHT THEN TF_WEIGHT[tf] ELSE 30

\* distScore + tfScore + strScore capped at 100, over 100 * currentPrice:
\* distScore is max(0, 50 - |price - currentPrice| / currentPrice * 1000).
MagnetScore(l, currentPrice) ==
    LET distN == Max(0, 50 * currentPrice - 1000 * Abs(l.price - currentPrice))
        raw == Reduce(Frac(100 * distN
                             + (TfWeight(l.timeframe) * 30 + l.strength * 20) * currentPrice,
                           100 * currentPrice))
    IN  IF FracLess(Frac(100, 1), raw) THEN Frac(100, 1) ELSE raw

ScoreLiquidityMagnet(lvls, currentPrice) ==
    LET active == SelectSeq(lvls, LAMBDA l : l.status = "ACTIVE")
        scored == [k \in 1..Len(active) |->
                      [level |-> active[k], magnetScore |-> MagnetScore(active[k], currentPrice)]]
    IN  StableSort(scored, LAMBDA a, b : FracLess(b.magnetScore, a.magnetScore))

\* The score before the clamp.
LiquidityScore(lvls, currentPrice, direction) ==
    LET recentSweeps == LastN(SelectSeq(lvls, LAMBDA l : l.status = "SWEPT"), 10)
        alignedSweeps == SelectSeq(recentSweeps,
                             LAMBDA l : l.type = (IF direction = "LONG" THEN "LOW" ELSE "HIGH"))
        n == Len(alignedSweeps)
        strengths == SeqSum([k \in 1..n |-> alignedSweeps[k].strength])
        \* Math.min(40, sum / n * 0.4)
        qualityScore == IF 4 * strengths > 400 * n THEN Frac(40, 1) ELSE Frac(4 * strengths, 10 * n)
        htfSweeps == SelectSeq(alignedSweeps, LAMBDA l : l.timeframe \in {"4h", "1d", "1w"})
        magnets == ScoreLiquidityMagnet(lvls, currentPrice)
        topMagnet == magnets[1]
        magnetAligned ==
            /\ Len(magnets) > 0
            /\ FracLess(Frac(60, 1), topMagnet.magnetScore)
            /\ topMagnet.level.type = (IF direction = "LONG" THEN "HIGH" ELSE "LOW")
    IN  FracPlus(IF n > 0 THEN qualityScore ELSE Frac(0, 1),
                 (IF Len(htfSweeps) > 0 THEN 25 ELSE 0)
                 + (IF magnetAligned THEN 20 ELSE 0)
                 + (IF n = 0 THEN -20 ELSE 0))

RunLiquidityAgent(lvls, currentPrice, direction) ==
    Signal("LIQUIDITY", ClampFrac(LiquidityScore(lvls, currentPrice, direction)),
           direction = "LONG")

(***************************************************************************)
(* utils/ict.ts: calcPDArray, pdScore, countNearbyOBs, nearestFVG;         *)
(* utils/agents.ts: runArrayAgent                                          *)
(***************************************************************************)
SetMax(S) == CHOOSE x \in S : \A y \in S : y <= x

SetMin(S) == CHOOSE x \in S : \A y \in S : x <= y

\* premium and discount are low + range * 0.618 and low + range * 0.382,
\* held over 1000.
CalcPDArray(sws, currentPrice) ==
    LET highs == LastN(SelectSeq(sws, LAMBDA w : w.type = "HIGH"), 3)
        lows == LastN(SelectSeq(sws, LAMBDA w : w.type = "LOW"), 3)
        high == SetMax({highs[k].price : k \in 1..Len(highs)})
        low == SetMin({lows[k].price : k \in 1..Len(lows)})
    IN  IF Len(highs) = 0 \/ Len(lows) = 0 THEN Null
        ELSE [high |-> high, low |-> low,
              premium |-> Frac(1000 * low + 618 * (high - low), 1000),
              discount |-> Frac(1000 * low + 382 * (high - low), 1000)]

pdScore(pd, price) ==
    IF FracLeq(pd.premium, Frac(price, 1)) THEN Frac(0, 1)
    ELSE IF FracLeq(Frac(price, 1), pd.discount) THEN Frac(100, 1)
    ELSE Frac((pd.premium.n - 1000 * price) * 100, pd.premium.n - pd.discount.n)

\* Math.abs(x - price) < price * pctRange / 100, x a fraction, pctRange in
\* tenths of a percent
Near(x, price, tenths) == Abs(x.n - price * x.d) * 1000 < price * tenths * x.d

countNearbyOBs(obs, price, tenths) ==
    [bullish |-> Count(obs, LAMBDA ob : ~ob.mitigated /\ ob.type = "BULLISH"
                                         /\ Near(Frac(ob.top, 1), price, tenths)),
     bearish |-> Count(obs, LAMBDA ob : ~ob.mitigated /\ ob.type = "BEARISH"
                                         /\ Near(Frac(ob.bottom, 1), price, tenths))]

nearestFVG(gaps, price, tenths) ==
    LET nearby == StableSort(SelectSeq(gaps, LAMBDA f : ~f.filled /\ Near(f.midpoint, price, tenths)),
                             LAMBDA a, b : b.time < a.time)
    IN  IF Len(nearby) = 0 THEN Null ELSE nearby[1]

\* The score before the clamp.
ArrayScore(orderBlocks, gaps, pdArray, currentPrice, direction) ==
    LET nearbyOBs == countNearbyOBs(orderBlocks, currentPrice, 15)
        relevantOBs == IF direction = "LONG" THEN nearbyOBs.bullish ELSE nearbyOBs.bearish
        fvg == nearestFVG(gaps, currentPrice, 20)
        fvgAligned == IF direction = "LONG" THEN fvg.type = "BULLISH" ELSE fvg.type = "BEARISH"
        pds == pdScore(pdArray, currentPrice)
        Above(k) == FracLess(Frac(k, 1), pds)
        Below(k) == FracLess(pds, Frac(k, 1))
        wanted == SelectSeq(orderBlocks, LAMBDA ob : ~ob.mitigated /\
                      ob.type = (IF direction = "LONG" THEN "BULLISH" ELSE "BEARISH"))
        bestOB == StableSort(wanted, LAMBDA a, b : b.strength < a.strength)[1]
    IN  (IF relevantOBs > 0 THEN Min(30, relevantOBs * 15) ELSE 0)
        + (IF fvg # Null /\ ~fvg.filled
              THEN (IF fvgAligned THEN 25 ELSE 0)
                   + (IF /\ FracLess(Frac(30, 1), fvg.fillPercent)
                         /\ FracLess(fvg.fillPercent, Frac(60, 1))
                         THEN 10 ELSE 0)
              ELSE 0)
        + (IF pdArray = Null THEN 0
           ELSE IF direction = "LONG" /\ Above(70) THEN 25
           ELSE IF direction = "SHORT" /\ Below(30) THEN 25
           ELSE IF (direction = "LONG" /\ Above(50)) \/ (direction = "SHORT" /\ Below(50)) THEN 10
           ELSE 0)
        + (IF Len(wanted) > 0 /\ bestOB.strength > 70 THEN 10 ELSE 0)

RunArrayAgent(orderBlocks, gaps, pdArray, currentPrice, direction) ==
    Signal("ARRAY",
           Frac(Clamp(ArrayScore(orderBlocks, gaps, pdArray, currentPrice, direction)), 1),
           direction = "LONG")

(***************************************************************************)
(* utils/agents.ts: runRiskAgent                                           *)
(***************************************************************************)
\* balance is a fraction; tradesThisSession, the prices are whole.
RiskBlocked(balance, tradesThisSession) ==
    FracLess(balance, Frac(30, 1)) \/ tradesThisSession >= 2

\* The score before the clamp, when no hard gate blocks.
RiskScore(killzone, tradesThisSession, entryPrice, stopLoss, tp1, newsInWindow) ==
    LET minutesRemaining ==
            IF killzone.minutesRemaining = Undefined THEN 999 ELSE killzone.minutesRemaining[1]
        reward == Abs(tp1 - entryPrice)
        risk == Abs(entryPrice - stopLoss)
    IN  (IF killzone # Null /\ killzone.active
            THEN 40 + (IF killzone.name = "NYKZ" THEN 10 ELSE 0)
                    - (IF minutesRemaining < 15 THEN 15 ELSE 0)
            ELSE -30)
        + (IF RatioGeq(reward, risk, 3) THEN 25
           ELSE IF RatioGeq(reward, risk, 2) THEN 15
           ELSE -20)
        - (IF newsInWindow THEN 20 ELSE 0)
        + (IF tradesThisSession = 0 THEN 10 ELSE 0)

RunRiskAgent(killzone, balance, tradesThisSession, entryPrice, stopLoss, tp1, newsInWindow) ==
    IF RiskBlocked(balance, tradesThisSession)
        THEN Signal("RISK", Frac(0, 1), FALSE)
        ELSE LET score == Clamp(RiskScore(killzone, tradesThisSession, entryPrice,
                                          stopLoss, tp1, newsInWindow))
             IN  Signal("RISK", Frac(score, 1), score > 50)

(***************************************************************************)
(* utils/agents.ts: runExecutionAgent                                      *)
(***************************************************************************)
\* Math.abs(entryPrice - x) / entryPrice * 100 against a bound given in
\* tenths of a percent
PctBelow(x, entryPrice, tenths) == Abs(entryPrice - x) * 1000 < tenths * entryPrice

\* The score before the clamp.  fvgMidpoint and obEdge are Undefined for null.
ExecutionScore(cs, entryPrice, stopLoss, tp1, tp2, direction, fvgMidpoint, obEdge) ==
    LET risk == Abs(entryPrice - stopLoss)
        momentum == Count(LastN(cs, 3), LAMBDA c :
                        IF direction = "LONG" THEN c.close > c.open ELSE c.close < c.open)
    IN  (IF fvgMidpoint # Undefined
            THEN (IF PctBelow(fvgMidpoint[1], entryPrice, 1) THEN 30
                  ELSE IF PctBelow(fvgMidpoint[1], entryPrice, 3) THEN 20
                  ELSE 10)
         ELSE IF obEdge # Undefined
            THEN (IF PctBelow(obEdge[1], entryPrice, 2) THEN 25 ELSE 10)
         ELSE 0)
        + (IF risk * 1000 >= 5 * entryPrice /\ risk * 1000 <= 15 * entryPrice THEN 20
           ELSE IF PctBelow(stopLoss, entryPrice, 3) THEN -15
           ELSE IF risk * 1000 > 25 * entryPrice THEN -10
           ELSE 0)
        + (IF RatioGeq(Abs(tp1 - entryPrice), risk, 2) THEN 20 ELSE 0)
        + (IF RatioGeq(Abs(tp2 - entryPrice), risk, 3) THEN 15 ELSE 0)
        + (IF momentum >= 2 THEN 15 ELSE 0)

RunExecutionAgent(cs, entryPrice, stopLoss, tp1, tp2, direction, fvgMidpoint, obEdge) ==
    Signal("EXECUTION",
           Frac(Clamp(ExecutionScore(cs, entryPrice, stopLoss, tp1, tp2, direction,
                                     fvgMidpoint, obEdge)), 1),
           direction = "LONG")

(***************************************************************************)
(* Specification of the five agents, each called on its own with arguments *)
(* drawn from the sets below.  Prices are ticks around 1000.               *)
(***************************************************************************)
Directions == {"LONG", "SHORT"}

\* open and close of a bullish, a bearish and a flat candle
CandleShapes == {[open |-> 1, close |-> 2], [open |-> 2, close |-> 1], [open |-> 1, close |-> 1]}

StructureInputs ==
    [agent : {"STRUCTURE"},
     candles : SeqsUpTo(CandleShapes, MaxAgentItems),
     structurePoints : SeqsUpTo([type : {"BOS_BULL", "BOS_BEAR", "CHoCH_BULL", "CHoCH_BEAR"},
                                 confirmed : BOOLEAN], MaxAgentItems),
     direction : Directions]

LiquidityInputs ==
    [agent : {"LIQUIDITY"},
     levels : SeqsUpTo([status : {"ACTIVE", "SWEPT"}, type : {"HIGH", "LOW"},
                        price : {1000, 1100}, strength : {30, 100},
                        timeframe : {"15m", "4h"}], MaxAgentItems),
     currentPrice : {1000},
     direction : Directions]

\* Blocks ten ticks tall around 1000, and one of each type around 1100.
OrderBlockAt(t, e, mi, st) ==
    [type |-> t, top |-> e + 5, bottom |-> e - 5, mitigated |-> mi, strength |-> st]

AgentOrderBlocks ==
    {OrderBlockAt(t, 1000, mi, st) : t \in {"BULLISH", "BEARISH"}, mi \in BOOLEAN, st \in {50, 80}}
    \cup {OrderBlockAt(t, 1100, FALSE, 80) : t \in {"BULLISH", "BEARISH"}}

\* The k-th gap of the list is stamped with time k.
AgentFvgs ==
    {[type |-> t, midpoint |-> Frac(2000, 2), filled |-> FALSE, fillPercent |-> fill] :
        t \in {"BULLISH", "BEARISH"}, fill \in {Frac(0, 1), Frac(50, 1)}}
    \cup {[type |-> "BULLISH", midpoint |-> Frac(2000, 2), filled |-> TRUE,
           fillPercent |-> Frac(100, 1)],
          [type |-> "BULLISH", midpoint |-> Frac(2201, 2), filled |-> FALSE,
           fillPercent |-> Frac(50, 1)]}

AgentFvgLists ==
    {[k \in 1..Len(g) |-> [type |-> g[k].type, midpoint |-> g[k].midpoint, time |-> k,
                           filled |-> g[k].filled, fillPercent |-> g[k].fillPercent]] :
        g \in SeqsUpTo(AgentFvgs, MaxAgentFvgs)}

AgentSwingLists ==
    {<<>>,
     <<[type |-> "HIGH", price |-> 1100], [type |-> "LOW", price |-> 990]>>,
     <<[type |-> "HIGH", price |-> 1010], [type |-> "LOW", price |-> 900]>>,
     <<[type |-> "HIGH", price |-> 1020], [type |-> "LOW", price |-> 970]>>}

ArrayInputs ==
    [agent : {"ARRAY"},
     orderBlocks : SeqsUpTo(AgentOrderBlocks, MaxAgentItems),
     fvgs : AgentFvgLists,
     pdArray : {CalcPDArray(sws, 1000) : sws \in AgentSwingLists},
     currentPrice : {1000},
     direction : Directions]

AgentKillzones ==
    {Null} \cup [name : {"AKZ", "NYKZ"}, active : BOOLEAN,
                 minutesRemaining : {Undefined, Some(10), Some(100)}]

RiskInputs ==
    [agent : {"RISK"},
     killzone : AgentKillzones,
     balance : {Frac(20, 1), Frac(30, 1), Frac(1000, 1)},
     tradesThisSession : 0..2,
     entryPrice : {1000},
     stopLoss : {1000, 995, 990, 980},
     tp1 : {1020},
     newsInWindow : BOOLEAN]

ExecutionInputs ==
    [agent : {"EXECUTION"},
     candles : SeqsUpTo(CandleShapes, MaxAgentItems),
     entryPrice : {1000},
     stopLoss : {1000, 998, 990, 980, 970},
     tp1 : {1020},
     tp2 : {1025, 1040},
     direction : Directions,
     fvgMidpoint : {Undefined, Some(1000), Some(1002), Some(1005)},
     obEdge : {Undefined, Some(1000), Some(1005)}]

AgentsCall(inputs) ==
    /\ agentIn \in inputs
    /\ signal = NoSignal
    /\ IdleSwings /\ IdleSweeps /\ IdleFvgs /\ IdleCouncil /\ IdleBacktest /\ IdleRest

InitAgents ==
    \/ pc = "runStructureAgent" /\ AgentsCall(StructureInputs)
    \/ pc = "runLiquidityAgent" /\ AgentsCall(LiquidityInputs)
    \/ pc = "runArrayAgent" /\ AgentsCall(ArrayInputs)
    \/ pc = "runRiskAgent" /\ AgentsCall(RiskInputs)
    \/ pc = "runExecutionAgent" /\ AgentsCall(ExecutionInputs)

AgentsReturn(result) ==
    /\ signal' = result
    /\ pc' = "returned"
    /\ UNCHANGED <<agentIn, swingVars, sweepVars, fvgVars, councilVars, backtestVars, restVars>>

AgentsRunStructure ==
    /\ pc = "runStructureAgent"
    /\ AgentsReturn(RunStructureAgent(agentIn.candles, agentIn.structurePoints,
                                      agentIn.direction))

AgentsRunLiquidity ==
    /\ pc = "runLiquidityAgent"
    /\ AgentsReturn(RunLiquidityAgent(agentIn.levels, agentIn.currentPrice, agentIn.direction))

AgentsRunArray ==
    /\ pc = "runArrayAgent"
    /\ AgentsReturn(RunArrayAgent(agentIn.orderBlocks, agentIn.fvgs, agentIn.pdArray,
                                  agentIn.currentPrice, agentIn.direction))

AgentsRunRisk ==
    /\ pc = "runRiskAgent"
    /\ AgentsReturn(RunRiskAgent(agentIn.killzone, agentIn.balance, agentIn.tradesThisSession,
                                 agentIn.entryPrice, agentIn.stopLoss, agentIn.tp1,
                                 agentIn.newsInWindow))

AgentsRunExecution ==
    /\ pc = "runExecutionAgent"
    /\ AgentsReturn(RunExecutionAgent(agentIn.candles, agentIn.entryPrice, agentIn.stopLoss,
                                      agentIn.tp1, agentIn.tp2, agentIn.direction,
                                      agentIn.fvgMidpoint, agentIn.obEdge))

NextAgents ==
    \/ AgentsRunStructure
    \/ AgentsRunLiquidity
    \/ AgentsRunArray
    \/ AgentsRunRisk
    \/ AgentsRunExecution

SpecAgents == InitAgents /\ [][NextAgents]_vars

(***************************************************************************)
(* C6: each of the five agents returns a score in [0, 100], whatever its   *)
(* arguments and for both directions.                                      *)
(***************************************************************************)
C6_ScoreInRange ==
    pc = "returned" /\ signal # NoSignal =>
        /\ signal.score.d > 0
        /\ 0 <= signal.score.n
        /\ signal.score.n <= 100 * signal.score.d

\* The Structure agent returned 0 for a sum below 0: the clamp acted.
C6_Witness ==
    /\ pc = "returned"
    /\ agentIn.agent = "STRUCTURE"
    /\ StructureScore(agentIn.candles, agentIn.structurePoints, agentIn.direction) < 0
    /\ signal.agent = "STRUCTURE"
    /\ signal.score = Frac(0, 1)

(***************************************************************************)
(* utils/agents.ts: runCouncil                                             *)
(*                                                                         *)
(* The weights being hundredths, the thresholds 0.6 and 0.4 of the vote    *)
(* are 60 and 40.  The quotient by totalWeight is a fraction whose         *)
(* denominator is 0 when totalWeight is: 0 / 0 is NaN.                     *)
(***************************************************************************)
RECURSIVE WeightedSum(_)
WeightedSum(as) ==
    IF as = <<>> THEN Frac(0, 1)
    ELSE LET a == Head(as)
             rest == WeightedSum(Tail(as))
         IN  Reduce(Frac(a.score.n * a.weight * rest.d + rest.n * a.score.d,
                         a.score.d * rest.d))

\* The plain mean of the scores, every weight taken as 1.
PlainAverage(as) ==
    LET ones == [k \in 1..Len(as) |-> [as[k] EXCEPT !.weight = 1]]
        sum == WeightedSum(ones)
    IN  Frac(sum.n, sum.d * Len(as))

\* agents.reduce((s, a) => s + a.score * a.weight, 0) / totalWeight
WeightedAverage(as) ==
    LET totalWeight == SeqSum([k \in 1..Len(as) |-> as[k].weight])
        sum == WeightedSum(as)
    IN  Frac(sum.n, sum.d * totalWeight)

\* x >= k, which NaN does not satisfy
AtLeast(x, k) == x.d > 0 /\ x.n >= k * x.d

Grade(consensusScore) ==
    IF AtLeast(consensusScore, 90) THEN "A+"
    ELSE IF AtLeast(consensusScore, 80) THEN "A"
    ELSE IF AtLeast(consensusScore, 65) THEN "B"
    ELSE "C"

\* Math.round: the nearest whole number, a half going up; NaN stays NaN.
MathRound(x) == IF x.d = 0 THEN x ELSE Frac((2 * x.n + x.d) \div (2 * x.d), 1)

\* The vote with both thresholds inclusive.
DirectionInclusive(bullishVotes) ==
    IF bullishVotes >= 60 THEN "LONG"
    ELSE IF bullishVotes <= 40 THEN "SHORT"
    ELSE None

\* The vote that asks for every weight on one side.
DirectionUnanimous(bullishVotes) ==
    IF bullishVotes >= 100 THEN "LONG"
    ELSE IF bullishVotes <= 0 THEN "SHORT"
    ELSE None

Direction(bullishVotes) ==
    IF bullishVotes > 60 THEN "LONG"
    ELSE IF bullishVotes < 40 THEN "SHORT"
    ELSE None

RunCouncil(as, now) ==
    LET consensusScore == WeightedAverage(as)
        bullish == SelectSeq(as, LAMBDA a : a.bullish)
        bullishVotes == SeqSum([k \in 1..Len(bullish) |-> bullish[k].weight])
    IN  [agents |-> as,
         consensusScore |-> MathRound(consensusScore),
         grade |-> Grade(consensusScore),
         direction |-> Direction(bullishVotes),
         timestamp |-> now]

(***************************************************************************)
(* Specification of runCouncil, called as the program calls it: on the     *)
(* five signals, each with the weight its agent stamps.  The scores range  *)
(* over a grid under the flags the agents set (the Risk agent votes        *)
(* bullish above 50, the others with the direction); the flags range over  *)
(* every pattern under the scores of the spec's scenario.                  *)
(***************************************************************************)
AgentNames == <<"STRUCTURE", "LIQUIDITY", "ARRAY", "RISK", "EXECUTION">>

ScoreGrid == {0, 40, 50, 60, 70, 75, 80, 90, 100}

ScenarioScores == <<80, 70, 60, 50, 40>>

\* Date.now() at the two calls a run may make
Clock == {0, 1}

Panel(scores, flags) ==
    [k \in 1..5 |-> [agent |-> AgentNames[k], score |-> Frac(scores[k], 1),
                     bullish |-> flags[k], weight |-> WEIGHTS[AgentNames[k]]]]

CouncilPanels ==
    {Panel(sc, [k \in 1..5 |-> IF k = 4 THEN sc[4] > 50 ELSE d = "LONG"]) :
        sc \in [1..5 -> ScoreGrid], d \in Directions}
    \cup {Panel(ScenarioScores, flags) : flags \in [1..5 -> BOOLEAN]}

InitCouncil ==
    /\ pc = "runCouncil"
    /\ agents \in CouncilPanels
    /\ council = NoCouncil
    /\ IdleSwings /\ IdleSweeps /\ IdleFvgs /\ IdleAgents /\ IdleBacktest /\ IdleRest

CouncilRun ==
    /\ pc = "runCouncil"
    /\ \E now \in Clock : council' = RunCouncil(agents, now)
    /\ pc' = "returned"
    /\ UNCHANGED <<agents, swingVars, sweepVars, fvgVars, agentVars, backtestVars, restVars>>

NextCouncil == CouncilRun

SpecCouncil == InitCouncil /\ [][NextCouncil]_vars

\* What the claims below read off a returned council.
Returned == pc = "returned" /\ council # NoCouncil

ReportedScore == council.consensusScore.n

\* 100 times the weighted average of the five scores under the fixed weights
HundredAverages ==
    25 * council.agents[1].score.n + 25 * council.agents[2].score.n
    + 20 * council.agents[3].score.n + 15 * council.agents[4].score.n
    + 15 * council.agents[5].score.n

BullishWeight ==
    SeqSum([k \in 1..5 |-> IF council.agents[k].bullish THEN council.agents[k].weight ELSE 0])

ScoresAre(scores) == \A k \in 1..5 : council.agents[k].score = Frac(scores[k], 1)

(***************************************************************************)
(* C2: the grade of a returned council is the step function of the         *)
(* consensusScore the same council reports: A+ from 90, A from 80, B from  *)
(* 65, C below; exactly 65, 80, 90 give B, A, A+.                          *)
(***************************************************************************)
C2_GradeFollowsReportedScore ==
    Returned =>
        council.grade = (IF ReportedScore >= 90 THEN "A+"
                         ELSE IF ReportedScore >= 80 THEN "A"
                         ELSE IF ReportedScore >= 65 THEN "B"
                         ELSE "C")

(***************************************************************************)
(* C7, as the code has it: the consensus score runCouncil reports is       *)
(* sum(score * weight) / sum(weight) rounded to the nearest whole number,  *)
(* a half going up, under the fixed weights 0.25, 0.25, 0.20, 0.15, 0.15   *)
(* of Structure, Liquidity, Array, Risk, Execution; it lies in [0, 100];   *)
(* the scores 80, 70, 60, 50, 40 give 63 and grade C.                      *)
(***************************************************************************)
C7_FixedWeights ==
    /\ Len(council.agents) = 5
    /\ \A k \in 1..5 :
        /\ council.agents[k].agent = AgentNames[k]
        /\ council.agents[k].weight = <<25, 25, 20, 15, 15>>[k]
        /\ council.agents[k].score.d = 1

C8_DirectionByWeightedVote ==
    Returned =>
        /\ council.direction = "LONG" <=> BullishWeight > 60
        /\ council.direction = "SHORT" <=> BullishWeight < 40
        /\ council.direction = None <=> (40 <= BullishWeight /\ BullishWeight <= 60)
        /\ council.grade \in {"A+", "A", "B", "C"}
        /\ council.consensusScore.d = 1

\* Structure, Array and Risk bullish: the sum is exactly 0.6, the direction null.
C8_Witness ==
    /\ Returned
    /\ BullishWeight = 60
    /\ council.direction = None
    /\ council.grade = "C"

(***************************************************************************)
(* hooks/useKillzone.ts: getActiveKillzone                                 *)
(***************************************************************************)
KILLZONE_DEFS ==
    <<[name |-> "AKZ", startH |-> 6, startM |-> 30, endH |-> 10, endM |-> 0],
      [name |-> "LKZ", startH |-> 13, startM |-> 0, endH |-> 17, endM |-> 0],
      [name |-> "NYKZ", startH |-> 18, startM |-> 15, endH |-> 22, endM |-> 15]>>

FLATTEN_MINS == 22 * 60 + 5

\* totalMins is h * 60 + m of the MMT time.
GetActiveKillzone(totalMins) ==
    LET EndOf(kz) == Min(kz.endH * 60 + kz.endM, FLATTEN_MINS)
        hits == {k \in 1..Len(KILLZONE_DEFS) :
                    /\ totalMins >= KILLZONE_DEFS[k].startH * 60 + KILLZONE_DEFS[k].startM
                    /\ totalMins < EndOf(KILLZONE_DEFS[k])}
        kz == KILLZONE_DEFS[SetMin(hits)]
    IN  IF hits = {} THEN Null
        ELSE [name |-> kz.name, active |-> TRUE,
              minutesRemaining |-> Some(EndOf(kz) - totalMins)]

(***************************************************************************)
(* hooks/useKillzone.ts: runBacktest                                       *)
(*                                                                         *)
(* The candle array is not held: the model keeps its length and draws what *)
(* the code reads off it at the moment it reads it.  At an analysed index  *)
(* that is the MMT minute of the candle's time, its close, the last five   *)
(* candles of the slice and what the detectors return for the slice; in    *)
(* the outcome scan it is the high and low of candles[j].  A candle's time *)
(* is its index.  Two scans that read the same candle draw it apart, which *)
(* admits every run of the code and some more.                             *)
(***************************************************************************)
MinCandles == 100

WarmUp == 50

TailCandles == 5

AnalyseEvery == 15

ScanWindow == 50

SkipAfterTrade == 20

\* lastCandle.close * 0.008 * 2.5 and * 5.0; the closes drawn are multiples
\* of 50, so that both are whole.
Tp1Of(direction, entry, close) ==
    IF direction = "LONG" THEN entry + (close * 20) \div 1000 ELSE entry - (close * 20) \div 1000

Tp2Of(direction, entry, close) ==
    IF direction = "LONG" THEN entry + (close * 40) \div 1000 ELSE entry - (close * 40) \div 1000

\* n / d <= k: the filter that wants more than k
RatioNotAbove(n, d, k) == d # 0 /\ n <= k * d

\* n / d < k, which neither Infinity nor NaN satisfies
RatioLess(n, d, k) == d # 0 /\ n < k * d

\* parseFloat((n / d).toFixed(2))
ToFixed2(n, d) == IF d = 0 THEN Frac(n, 0) ELSE Reduce(Frac((200 * n + d) \div (2 * d), 100))

\* One candle of the outcome scan with the stop tested first.
ResolveStopFirst(direction, c, sl, tp1, tp2) ==
    IF direction = "LONG"
        THEN IF c.low <= sl THEN <<"SL_HIT", sl>>
             ELSE IF c.high >= tp2 THEN <<"TP2_HIT", tp2>>
             ELSE IF c.high >= tp1 THEN <<"TP1_HIT", tp1>>
             ELSE <<>>
        ELSE IF c.high >= sl THEN <<"SL_HIT", sl>>
             ELSE IF c.low <= tp2 THEN <<"TP2_HIT", tp2>>
             ELSE IF c.low <= tp1 THEN <<"TP1_HIT", tp1>>
             ELSE <<>>

\* One candle of the outcome scan: the outcome and exit price it sets before
\* the break, <<>> when it sets none.
Resolve(direction, c, sl, tp1, tp2) ==
    IF direction = "LONG"
        THEN IF c.high >= tp2 THEN <<"TP2_HIT", tp2>>
             ELSE IF c.high >= tp1 THEN <<"TP1_HIT", tp1>>
             ELSE IF c.low <= sl THEN <<"SL_HIT", sl>>
             ELSE <<>>
        ELSE IF c.low <= tp2 THEN <<"TP2_HIT", tp2>>
             ELSE IF c.low <= tp1 THEN <<"TP1_HIT", tp1>>
             ELSE IF c.high >= sl THEN <<"SL_HIT", sl>>
             ELSE <<>>

\* Math.min(i + 50, candles.length)
ScanLimit == Min(walkI + ScanWindow, len)

\* Quotients and sums of fractions with positive denominators.
FracAdd(a, b) ==
    LET g == GCD(a.d, b.d)
    IN  Reduce(Frac(a.n * (b.d \div g) + b.n * (a.d \div g), (a.d \div g) * b.d))

FracDiv(a, b) ==
    LET n == a.n * b.d
        d == a.d * b.n
    IN  IF d < 0 THEN Reduce(Frac(-n, -d)) ELSE Reduce(Frac(n, d))

\* What the iteration at index idx computes for the first setup, up to the
\* council.  ctx holds what the detectors return for the slice and the last
\* five candles of the slice.
Candidate(idx, kz, close, ctx, setup, bal, tf, now) ==
    LET direction == setup.direction
        entry == setup.fvgEntry
        sl == setup.stopLoss
        tp1 == Tp1Of(direction, entry, close)
        tp2 == Tp2Of(direction, entry, close)
        lvls == [k \in 1..Len(ctx.levels) |->
                    [status |-> ctx.levels[k].status, type |-> ctx.levels[k].type,
                     price |-> ctx.levels[k].price, strength |-> ctx.levels[k].strength,
                     timeframe |-> tf]]
        as == <<RunStructureAgent(ctx.tail, ctx.structure, direction),
                RunLiquidityAgent(lvls, close, direction),
                RunArrayAgent(ctx.obs, ctx.fvgs, CalcPDArray(ctx.swings, close), close, direction),
                RunRiskAgent(kz, bal, 0, entry, sl, tp1, FALSE),
                RunExecutionAgent(ctx.tail, entry, sl, tp1, tp2, direction, Some(entry),
                                  Undefined)>>
    IN  [index |-> idx, direction |-> direction, entry |-> entry, sl |-> sl,
         tp1 |-> tp1, tp2 |-> tp2, kz |-> kz, council |-> RunCouncil(as, now)]

\* if (rr < 2) continue
RRTooLow(setup, close) ==
    RatioLess(Abs(Tp1Of(setup.direction, setup.fvgEntry, close) - setup.fvgEntry),
              Abs(setup.fvgEntry - setup.stopLoss), 2)

\* The grade filter letting B through.
GradeIsC(c) == c.council.grade = "C"

\* if (council.grade !== 'A+' && council.grade !== 'A') continue
GradeTooLow(c) == c.council.grade # "A+" /\ c.council.grade # "A"

\* The Trade pushed, with the fields that are not the same in every trade.
\* resolvedAt and balanceBefore are not fields of the code's Trade: they keep
\* the index of the candle the scan broke out at (Undefined when it broke out
\* at none) and the balance the trade was sized on.
TradeOf(c, bal, riskPerTrade, result, price, stoppedAt) ==
    LET risk == Abs(c.entry - c.sl)
        riskAmt == Frac(bal.n * riskPerTrade, bal.d * 100)
        posSize == Reduce(Frac(riskAmt.n, riskAmt.d * risk))
        move == IF c.direction = "LONG" THEN price - c.entry ELSE c.entry - price
        pnl == Reduce(Frac(move * posSize.n, posSize.d))
    IN  [id |-> <<"bt", c.index>>,
         timestamp |-> c.index,
         direction |-> c.direction,
         grade |-> c.council.grade,
         entry |-> c.entry, stopLoss |-> c.sl, tp1 |-> c.tp1, tp2 |-> c.tp2,
         rr |-> ToFixed2(Abs(c.tp1 - c.entry), risk),
         riskPercent |-> riskPerTrade,
         killzone |-> c.kz.name,
         council |-> c.council,
         status |-> result,
         executedAt |-> c.index,
         executedPrice |-> c.entry,
         positionSize |-> posSize,
         pnl |-> pnl,
         pnlPercent |-> FracDiv(Frac(pnl.n * 100, pnl.d), bal),
         closedAt |-> c.index,
         closePrice |-> price,
         resolvedAt |-> stoppedAt,
         balanceBefore |-> bal]

(***************************************************************************)
(* hooks/useKillzone.ts: calcMetrics                                       *)
(*                                                                         *)
(* Every trade given to it carries a pnl, as every trade runBacktest       *)
(* pushes does.  sharpeRatio is avgPnl / stdDev * Math.sqrt(252) when      *)
(* stdDev > 0 and 0 otherwise; the record keeps variance, the square of    *)
(* stdDev, in its place.                                                   *)
(***************************************************************************)
PROFIT_FACTOR_SENTINEL == 999

FracNeg(a) == Frac(-a.n, a.d)

FracMul(a, b) == Reduce(Frac(a.n * b.n, a.d * b.d))

FracAbs(a) == Frac(Abs(a.n), a.d)

\* array.reduce((s, x) => s + x, 0) over fractions
RECURSIVE FracSum(_)
FracSum(fs) == IF fs = <<>> THEN Frac(0, 1) ELSE FracAdd(Head(fs), FracSum(Tail(fs)))

\* x > 0 and x <= 0, neither of which NaN satisfies
IsPositive(x) == x.n > 0

IsNotPositive(x) == x.n <= 0 /\ (x.d # 0 \/ x.n < 0)

PnlsOf(ts) == [k \in 1..Len(ts) |-> ts[k].pnl]

\* The sentinel left out: 0 whenever there is no gross loss.
ProfitFactorNoSentinel(grossWin, grossLoss) ==
    IF IsPositive(grossLoss) THEN FracDiv(grossWin, grossLoss) ELSE Frac(0, 1)

\* grossLoss > 0 ? grossWin / grossLoss : grossWin > 0 ? 999 : 0
ProfitFactor(grossWin, grossLoss) ==
    IF IsPositive(grossLoss) THEN FracDiv(grossWin, grossLoss)
    ELSE IF IsPositive(grossWin) THEN Frac(PROFIT_FACTOR_SENTINEL, 1)
    ELSE Frac(0, 1)

\* The drawdown loop from trade k on: the largest peak - bal seen.
RECURSIVE MaxDrawdownFrom(_, _, _, _, _)
MaxDrawdownFrom(ts, k, bal, peak, maxDD) ==
    IF k > Len(ts) THEN maxDD
    ELSE LET bal2 == FracAdd(bal, ts[k].pnl)
             peak2 == IF FracLess(peak, bal2) THEN bal2 ELSE peak
             dd == FracAdd(peak2, FracNeg(bal2))
         IN  MaxDrawdownFrom(ts, k + 1, bal2, peak2, IF FracLess(maxDD, dd) THEN dd ELSE maxDD)

\* Math.max(...xs, 0) and Math.min(...xs, 0)
RECURSIVE FracMaxOf(_, _)
FracMaxOf(fs, least) ==
    IF fs = <<>> THEN least
    ELSE FracMaxOf(Tail(fs), IF FracLess(least, Head(fs)) THEN Head(fs) ELSE least)

RECURSIVE FracMinOf(_, _)
FracMinOf(fs, most) ==
    IF fs = <<>> THEN most
    ELSE FracMinOf(Tail(fs), IF FracLess(Head(fs), most) THEN Head(fs) ELSE most)

KillzoneStats(ts, name) ==
    LET mine == SelectSeq(ts, LAMBDA t : t.killzone = name)
    IN  [trades |-> Len(mine),
         wins |-> Len(SelectSeq(mine, LAMBDA t : IsPositive(t.pnl))),
         pnl |-> FracSum(PnlsOf(mine))]

CalcMetrics(ts, cfg) ==
    LET wins == SelectSeq(ts, LAMBDA t : IsPositive(t.pnl))
        losses == SelectSeq(ts, LAMBDA t : IsNotPositive(t.pnl))
        grossWin == FracSum(PnlsOf(wins))
        grossLoss == FracAbs(FracSum(PnlsOf(losses)))
        pnlArr == PnlsOf(ts)
        totalPnl == FracSum(pnlArr)
        count == IF Len(ts) = 0 THEN 1 ELSE Len(ts)
        avgPnl == FracDiv(totalPnl, Frac(count, 1))
        squares == [k \in 1..Len(ts) |->
                       LET dev == FracAdd(pnlArr[k], FracNeg(avgPnl)) IN FracMul(dev, dev)]
        initial == Frac(cfg.initialBalance, 1)
        maxDD == MaxDrawdownFrom(ts, 1, initial, initial, Frac(0, 1))
    IN  [totalTrades |-> Len(ts),
         wins |-> Len(wins),
         losses |-> Len(losses),
         winRate |-> IF Len(ts) # 0 THEN Reduce(Frac(Len(wins) * 100, Len(ts))) ELSE Frac(0, 1),
         profitFactor |-> ProfitFactor(grossWin, grossLoss),
         variance |-> FracDiv(FracSum(squares), Frac(count, 1)),
         maxDrawdown |-> maxDD,
         maxDrawdownPct |->
            IF cfg.initialBalance > 0
                THEN FracDiv(FracMul(maxDD, Frac(100, 1)), initial) ELSE Frac(0, 1),
         totalPnl |-> totalPnl,
         totalPnlPct |->
            IF cfg.initialBalance > 0
                THEN FracDiv(FracMul(totalPnl, Frac(100, 1)), initial) ELSE Frac(0, 1),
         avgRR |-> IF Len(ts) # 0
                    THEN FracDiv(FracSum([k \in 1..Len(ts) |-> ts[k].rr]), Frac(Len(ts), 1))
                    ELSE Frac(0, 1),
         bestTrade |-> FracMaxOf(pnlArr, Frac(0, 1)),
         worstTrade |-> FracMinOf(pnlArr, Frac(0, 1)),
         byKillzone |-> [name \in {"AKZ", "LKZ", "NYKZ", "IDLE"} |-> KillzoneStats(ts, name)]]

(***************************************************************************)
(* What runBacktest is run on.  Prices are ticks around a close of 1000,   *)
(* where lastCandle.close * 0.008 is 8 ticks: tp1 is 20 ticks from the     *)
(* entry, tp2 is 40.                                                       *)
(***************************************************************************)
BtConfigs == [initialBalance : {20, 1000}, riskPerTrade : {1}, timeframe : {"4h"}]

\* MMT minutes of the day: 00:00, outside every killzone, and 18:20, in NYKZ.
BtMinutes == {0, 1100}

BtCloses == {1000}

\* setups[0] where there is one: a stop 10 ticks away (rr 2), 20 ticks away
\* (rr 1), and a LONG setup whose gap lies under the swept level, the stop
\* 10 ticks above the entry (detectSweepFVGSetups takes the stop from the
\* level's price and the entry from the gap)
BtSetups ==
    {[direction |-> "LONG", fvgEntry |-> 1000, stopLoss |-> 990],
     [direction |-> "LONG", fvgEntry |-> 1000, stopLoss |-> 980],
     [direction |-> "LONG", fvgEntry |-> 1000, stopLoss |-> 1010],
     [direction |-> "SHORT", fvgEntry |-> 1000, stopLoss |-> 1010],
     [direction |-> "SHORT", fvgEntry |-> 1000, stopLoss |-> 1020]}

BtSetupLists == {<<>>} \cup {<<st>> : st \in BtSetups}

BullTail == [k \in 1..5 |-> [open |-> 999, close |-> 1000]]

BearTail == [k \in 1..5 |-> [open |-> 1001, close |-> 1000]]

\* A slice on which everything is bullish: three confirmed bullish structure
\* points, a swept low and an untouched high above, two strong bullish order
\* blocks and a half-filled bullish gap at the price, the price in discount.
BullContext ==
    [structure |-> <<[type |-> "BOS_BULL", confirmed |-> TRUE],
                     [type |-> "CHoCH_BULL", confirmed |-> TRUE],
                     [type |-> "BOS_BULL", confirmed |-> TRUE]>>,
     levels |-> <<[status |-> "SWEPT", type |-> "LOW", price |-> 980, strength |-> 100],
                  [status |-> "ACTIVE", type |-> "HIGH", price |-> 1010, strength |-> 100]>>,
     obs |-> <<OrderBlockAt("BULLISH", 1000, FALSE, 80), OrderBlockAt("BULLISH", 1000, FALSE, 80)>>,
     fvgs |-> <<[type |-> "BULLISH", midpoint |-> Frac(2000, 2), time |-> 1, filled |-> FALSE,
                 fillPercent |-> Frac(50, 1)]>>,
     swings |-> <<[type |-> "HIGH", price |-> 1100], [type |-> "LOW", price |-> 990]>>,
     tail |-> BullTail]

\* Its mirror image.
BearContext ==
    [structure |-> <<[type |-> "BOS_BEAR", confirmed |-> TRUE],
                     [type |-> "CHoCH_BEAR", confirmed |-> TRUE],
                     [type |-> "BOS_BEAR", confirmed |-> TRUE]>>,
     levels |-> <<[status |-> "SWEPT", type |-> "HIGH", price |-> 1020, strength |-> 100],
                  [status |-> "ACTIVE", type |-> "LOW", price |-> 990, strength |-> 100]>>,
     obs |-> <<OrderBlockAt("BEARISH", 1000, FALSE, 80), OrderBlockAt("BEARISH", 1000, FALSE, 80)>>,
     fvgs |-> <<[type |-> "BEARISH", midpoint |-> Frac(2000, 2), time |-> 1, filled |-> FALSE,
                 fillPercent |-> Frac(50, 1)]>>,
     swings |-> <<[type |-> "HIGH", price |-> 1010], [type |-> "LOW", price |-> 900]>>,
     tail |-> BearTail]

BtContexts ==
    {BullContext,
     BearContext,
     \* bullish but for the structure, of which there is none
     [BullContext EXCEPT !.structure = <<>>],
     \* a swept low and nothing else
     [structure |-> <<>>,
      levels |-> <<[status |-> "SWEPT", type |-> "LOW", price |-> 980, strength |-> 30]>>,
      obs |-> <<>>, fvgs |-> <<>>, swings |-> <<>>, tail |-> BearTail]}

\* candles[j] of the outcome scan: a flat candle at the entry, and candles
\* that reach the stop, tp1 and tp2 of either direction, alone and together.
FutureBars ==
    {[high |-> 1000, low |-> 1000], [high |-> 1010, low |-> 990], [high |-> 1020, low |-> 980],
     [high |-> 1040, low |-> 960], [high |-> 1020, low |-> 990], [high |-> 1010, low |-> 980]}

InitBacktest ==
    /\ pc = "runBacktest"
    /\ config \in BtConfigs
    /\ len \in (MinCandles - 1)..MaxCandles
    /\ walkI = 0 /\ runBalance = Frac(0, 1) /\ trades = <<>>
    /\ cur = NoTrade /\ scanJ = 0 /\ fc = NoCandle /\ outcome = None /\ exitPrice = 0
    /\ metrics = Null
    /\ IdleSwings /\ IdleSweeps /\ IdleFvgs /\ IdleAgents /\ IdleCouncil /\ IdleRest

BtOthers == <<swingVars, sweepVars, fvgVars, agentVars, councilVars, restVars>>

\* The length check taking 100 candles for too few.
AtMostMinCandles(n) == n <= MinCandles

\* if (candles.length < 100) throw
TooFewCandles(n) == n < MinCandles

\* The declarations, the length check and the loop's initialisation.
BtEnter ==
    /\ pc = "runBacktest"
    /\ trades' = <<>>
    /\ runBalance' = Frac(config.initialBalance, 1)
    /\ IF TooFewCandles(len)
        THEN pc' = "thrown" /\ UNCHANGED walkI
        ELSE pc' = "loop" /\ walkI' = WarmUp
    /\ UNCHANGED <<config, len, cur, scanJ, fc, outcome, exitPrice, metrics, BtOthers>>

\* continue, and the loop's i++
BtContinue ==
    /\ walkI' = walkI + 1
    /\ UNCHANGED <<pc, config, len, runBalance, trades, cur, scanJ, fc, outcome, exitPrice, metrics>>

\* The iteration got past every filter: the outcome scan starts.
BtStartScan(c) ==
    /\ cur' = c
    /\ outcome' = "SL_HIT"
    /\ exitPrice' = c.sl
    /\ scanJ' = walkI + 1
    /\ pc' = "scan"
    /\ UNCHANGED <<config, len, walkI, runBalance, trades, fc, metrics>>

\* One iteration of the walk-forward loop, up to the outcome scan.
BtIterate ==
    /\ pc = "loop"
    /\ walkI < len - TailCandles
    /\ \E mins \in BtMinutes :
        LET kz == GetActiveKillzone(mins)
        IN  IF kz = Null \/ walkI % AnalyseEvery # 0
                THEN BtContinue
                ELSE \E close \in BtCloses, ctx \in BtContexts, setups \in BtSetupLists, now \in Clock :
                        IF setups = <<>> \/ RRTooLow(setups[1], close)
                            THEN BtContinue
                            ELSE LET c == Candidate(walkI, kz, close, ctx, setups[1], runBalance,
                                                    config.timeframe, now)
                                 IN  IF GradeTooLow(c) THEN BtContinue ELSE BtStartScan(c)
    /\ UNCHANGED BtOthers

\* One candle of the outcome scan.
BtScanStep ==
    /\ pc = "scan"
    /\ scanJ < ScanLimit
    /\ \E bar \in FutureBars :
        LET hit == Resolve(cur.direction, bar, cur.sl, cur.tp1, cur.tp2)
        IN  /\ fc' = bar
            /\ IF hit # <<>>
                THEN outcome' = hit[1] /\ exitPrice' = hit[2] /\ pc' = "book" /\ UNCHANGED scanJ
                ELSE scanJ' = scanJ + 1 /\ UNCHANGED <<outcome, exitPrice, pc>>
    /\ UNCHANGED <<config, len, walkI, runBalance, trades, cur, metrics, BtOthers>>

\* The scan ran out of candles or of its window.
BtScanEnd ==
    /\ pc = "scan"
    /\ scanJ >= ScanLimit
    /\ pc' = "book"
    /\ UNCHANGED <<backtestVars, BtOthers>>

\* pnl, balance += pnl, trades.push, i += 20 and the loop's i++; the locals
\* of the iteration go out of scope.
BtBook ==
    /\ pc = "book"
    /\ LET stoppedAt == IF scanJ < ScanLimit THEN Some(scanJ) ELSE Undefined
           trade == TradeOf(cur, runBalance, config.riskPerTrade, outcome, exitPrice, stoppedAt)
       IN  /\ runBalance' = FracAdd(runBalance, trade.pnl)
           /\ trades' = Append(trades, trade)
    /\ walkI' = walkI + SkipAfterTrade + 1
    /\ cur' = NoTrade /\ scanJ' = 0 /\ fc' = NoCandle /\ outcome' = None /\ exitPrice' = 0
    /\ pc' = "loop"
    /\ UNCHANGED <<config, len, metrics, BtOthers>>

\* The loop is over: return { config, trades, metrics: calcMetrics(trades, config) }
BtReturn ==
    /\ pc = "loop"
    /\ walkI >= len - TailCandles
    /\ metrics' = CalcMetrics(trades, config)
    /\ pc' = "returned"
    /\ UNCHANGED <<config, len, walkI, runBalance, trades, cur, scanJ, fc, outcome, exitPrice>>
    /\ UNCHANGED BtOthers

Next ==
    \/ BtEnter
    \/ BtIterate
    \/ BtScanStep
    \/ BtScanEnd
    \/ BtBook
    \/ BtReturn

Spec == InitBacktest /\ [][Next]_vars

(***************************************************************************)
(* C1: when the Risk evaluator's hard gate is tripped at an evaluated      *)
(* index (the running balance is below 30, so that runRiskAgent returns    *)
(* score 0), no trade is appended at that index: no trade of the log was   *)
(* sized on a balance the gate blocks.                                     *)
(***************************************************************************)
C1_GateBlocksTrade ==
    \A k \in 1..Len(trades) :
        ~ (/\ RiskBlocked(trades[k].balanceBefore, 0)
           /\ trades[k].council.agents[4].agent = "RISK"
           /\ trades[k].council.agents[4].score = Frac(0, 1))

(***************************************************************************)
(* C4: the outcome of a trade entered at index i is decided by the first   *)
(* candle after i, of at most 50 scanned in order from i + 1, that         *)
(* triggers a condition; within that candle target 2 goes before target 1  *)
(* and target 1 before the stop (LONG: high >= tp2, high >= tp1,           *)
(* low <= sl; SHORT: low <= tp2, low <= tp1, high >= sl) and the exit      *)
(* price is the level hit; when no scanned candle triggers, the outcome is *)
(* SL_HIT with the exit at the stop.  The trade pushed carries that        *)
(* outcome and exit price.                                                 *)
(***************************************************************************)
\* While no candle has triggered, the outcome is the stop's.
C4_ScanState ==
    pc = "scan" =>
        /\ outcome = "SL_HIT" /\ exitPrice = cur.sl
        /\ walkI < scanJ /\ scanJ <= ScanLimit
        /\ scanJ - walkI <= ScanWindow

C4_ReachesTp2(bar) ==
    IF cur.direction = "LONG" THEN bar.high >= cur.tp2 ELSE bar.low <= cur.tp2

C4_ReachesTp1(bar) ==
    IF cur.direction = "LONG" THEN bar.high >= cur.tp1 ELSE bar.low <= cur.tp1

C4_ReachesStop(bar) ==
    IF cur.direction = "LONG" THEN bar.low <= cur.sl ELSE bar.high >= cur.sl

C4_Decided(result, price) ==
    /\ pc' = "book" /\ outcome' = result /\ exitPrice' = price
    /\ scanJ' = scanJ /\ cur' = cur

C4_ScanStarts ==
    (pc = "loop" /\ pc' = "scan") => scanJ' = walkI' + 1 /\ walkI' = walkI

C4_ScanCandle ==
    (pc = "scan" /\ scanJ < ScanLimit) =>
        /\ C4_ReachesTp2(fc') => C4_Decided("TP2_HIT", cur.tp2)
        /\ (~ C4_ReachesTp2(fc') /\ C4_ReachesTp1(fc')) => C4_Decided("TP1_HIT", cur.tp1)
        /\ (~ C4_ReachesTp2(fc') /\ ~ C4_ReachesTp1(fc') /\ C4_ReachesStop(fc'))
            => C4_Decided("SL_HIT", cur.sl)
        /\ (~ C4_ReachesTp2(fc') /\ ~ C4_ReachesTp1(fc') /\ ~ C4_ReachesStop(fc'))
            => /\ pc' = "scan" /\ scanJ' = scanJ + 1
               /\ outcome' = outcome /\ exitPrice' = exitPrice /\ cur' = cur

C4_ScanRunsOut ==
    (pc = "scan" /\ scanJ >= ScanLimit) =>
        pc' = "book" /\ outcome' = "SL_HIT" /\ exitPrice' = cur.sl /\ cur' = cur

C4_Booked ==
    pc = "book" =>
        /\ Len(trades') = Len(trades) + 1
        /\ SubSeq(trades', 1, Len(trades)) = trades
        /\ LET trade == trades'[Len(trades')]
           IN  /\ trade.timestamp = walkI
               /\ trade.status = outcome
               /\ trade.closePrice = exitPrice
               /\ trade.closePrice = (IF outcome = "TP2_HIT" THEN cur.tp2
                                      ELSE IF outcome = "TP1_HIT" THEN cur.tp1
                                      ELSE cur.sl)
               /\ trade.resolvedAt # Undefined =>
                    (walkI < trade.resolvedAt[1] /\ trade.resolvedAt[1] < walkI + ScanWindow)

C5_NoOverlap ==
    \A k \in 1..(Len(trades) - 1) :
        trades[k].resolvedAt # Undefined =>
            trades[k + 1].timestamp >= trades[k].resolvedAt[1]

(***************************************************************************)
(* utils/ict.ts: detectOrderBlocks                                         *)
(***************************************************************************)
\* Math.min of a whole number and a fraction with a positive denominator
FracMin(k, f) == IF f.n > k * f.d THEN Frac(k, 1) ELSE f

\* Math.min(100, (c.volume / avgVol) * 50), avgVol being the mean volume of
\* the array; no candle of the arrays explored has volume 0.
VolStrength(cs, c) ==
    LET total == SeqSum([k \in 1..Len(cs) |-> cs[k].volume])
    IN  FracMin(100, Reduce(Frac(c.volume * Len(cs) * 50, total)))

\* Math.round(volStrength + moveStrength), moveStrength being
\* Math.min(50, (move / base) * 1000)
ObStrength(cs, c, move, base) ==
    MathRound(FracAdd(VolStrength(cs, c), FracMin(50, Reduce(Frac(move * 1000, base)))))

\* The last candle before spIdx, of at most 20, that P holds of; -1 if none.
LastBefore(cs, spIdx, P(_)) ==
    LET found == {j \in Max(0, spIdx - 20)..(spIdx - 1) : P(At(cs, j))}
    IN  IF found = {} THEN -1 ELSE SetMax(found)

\* The blocks one structure point pushes: one or none.
BlocksOf(cs, sp, tf) ==
    LET spIdx == FindIndexTimeGeq(cs, sp.time)
        bear == LastBefore(cs, spIdx, LAMBDA c : c.close < c.open)
        bull == LastBefore(cs, spIdx, LAMBDA c : c.close > c.open)
    IN  IF spIdx < 3 THEN <<>>
        ELSE IF sp.type \in {"BOS_BULL", "CHoCH_BULL"} /\ bear # -1
            THEN LET c == At(cs, bear)
                 IN  <<[id |-> <<"ob_bull", c.time>>, type |-> "BULLISH", top |-> c.open,
                        bottom |-> c.low, time |-> c.time, mitigated |-> FALSE,
                        mitigationTime |-> Undefined, volume |-> c.volume,
                        strength |-> ObStrength(cs, c, sp.price - c.high, c.high),
                        timeframe |-> tf]>>
        ELSE IF sp.type \in {"BOS_BEAR", "CHoCH_BEAR"} /\ bull # -1
            THEN LET c == At(cs, bull)
                 IN  <<[id |-> <<"ob_bear", c.time>>, type |-> "BEARISH", top |-> c.high,
                        bottom |-> c.open, time |-> c.time, mitigated |-> FALSE,
                        mitigationTime |-> Undefined, volume |-> c.volume,
                        strength |-> ObStrength(cs, c, c.low - sp.price, c.low),
                        timeframe |-> tf]>>
        ELSE <<>>

\* for (const sp of structurePoints), from the k-th point on
RECURSIVE BlocksLoop(_, _, _, _)
BlocksLoop(cs, points, k, tf) ==
    IF k > Len(points) THEN <<>>
    ELSE BlocksOf(cs, points[k], tf) \o BlocksLoop(cs, points, k + 1, tf)

\* The mitigation test with the block's edge not counting.
MitigatesBeyond(ob, c) ==
    \/ ob.type = "BULLISH" /\ c.low < ob.bottom
    \/ ob.type = "BEARISH" /\ c.high > ob.top

\* The two tests of the mitigation scan on candle c.
Mitigates(ob, c) ==
    \/ ob.type = "BULLISH" /\ c.low <= ob.bottom
    \/ ob.type = "BEARISH" /\ c.high >= ob.top

\* blocks.filter(b => b.strength > 20)
IsStrong(b) == b.strength.d # 0 /\ b.strength.n > 20 * b.strength.d

(***************************************************************************)
(* Specification of detectOrderBlocks: any bounded array of candles that   *)
(* close at their high or low, any bounded list of structure points.       *)
(***************************************************************************)
ObBars ==
    {[open |-> 1, high |-> 1, low |-> 1, close |-> 1, volume |-> 1],
     [open |-> 3, high |-> 3, low |-> 3, close |-> 3, volume |-> 1],
     [open |-> 3, high |-> 3, low |-> 2, close |-> 2, volume |-> 2],
     [open |-> 2, high |-> 3, low |-> 2, close |-> 3, volume |-> 2]}

ObTimed(bars) == [k \in 1..Len(bars) |-> [time |-> k - 1] @@ bars[k]]

\* A bullish and a bearish break at candle 3 or 4, of a level at 2 or 4.
ObPoints == [time : {3, 4}, price : {2, 4}, type : {"BOS_BULL", "CHoCH_BEAR"}]

InitOrderBlocks ==
    /\ pc = "detectOrderBlocks"
    /\ \E n \in 4..MaxObCandles : \E bars \in [1..n -> ObBars] : candles = ObTimed(bars)
    /\ sps \in SeqsUpTo(ObPoints, MaxStructurePoints)
    /\ timeframe \in {"15m"}
    /\ blocks = <<>> /\ obK = 0 /\ obScan = 0
    /\ leftLen = 0 /\ rightLen = 0 /\ swings = <<>>
    /\ levels = <<>> /\ level = NoLevel /\ swingK = 0 /\ scanI = 0
    /\ IdleFvgs /\ IdleAgents /\ IdleCouncil /\ IdleBacktest /\ IdleApp /\ IdleMore

ObOthers ==
    <<leftLen, rightLen, swings, levels, level, swingK, scanI, fvgVars, agentVars, councilVars,
      backtestVars, appVars, moreVars>>

\* for (const sp of structurePoints) { ... }
ObDetect ==
    /\ pc = "detectOrderBlocks"
    /\ blocks' = BlocksLoop(candles, sps, 1, timeframe)
    /\ obK' = 0
    /\ pc' = "forBlock"
    /\ UNCHANGED <<candles, timeframe, sps, obScan, ObOthers>>

\* for (const ob of blocks): the next block, or the filter and the return
ObForBlock ==
    /\ pc = "forBlock"
    /\ IF obK < Len(blocks)
        THEN /\ obScan' = FindIndexTimeGeq(candles, At(blocks, obK).time) + 1
             /\ pc' = "mitigation"
             /\ UNCHANGED blocks
        ELSE /\ blocks' = SelectSeq(blocks, IsStrong)
             /\ pc' = "returned"
             /\ UNCHANGED obScan
    /\ UNCHANGED <<candles, timeframe, sps, obK, ObOthers>>

\* One candle of the mitigation scan.
ObMitigationStep ==
    /\ pc = "mitigation"
    /\ obScan < Len(candles)
    /\ LET c == At(candles, obScan)
       IN  IF Mitigates(At(blocks, obK), c)
            THEN /\ blocks' = [blocks EXCEPT ![obK + 1].mitigated = TRUE,
                                             ![obK + 1].mitigationTime = Some(c.time)]
                 /\ obK' = obK + 1
                 /\ pc' = "forBlock"
                 /\ UNCHANGED obScan
            ELSE /\ obScan' = obScan + 1
                 /\ UNCHANGED <<blocks, obK, pc>>
    /\ UNCHANGED <<candles, timeframe, sps, ObOthers>>

\* The scan ran out of candles.
ObMitigationEnd ==
    /\ pc = "mitigation"
    /\ obScan >= Len(candles)
    /\ obK' = obK + 1
    /\ pc' = "forBlock"
    /\ UNCHANGED <<candles, timeframe, sps, blocks, obScan, ObOthers>>

NextOrderBlocks ==
    \/ ObDetect
    \/ ObForBlock
    \/ ObMitigationStep
    \/ ObMitigationEnd

SpecOrderBlocks == InitOrderBlocks /\ [][NextOrderBlocks]_vars

(***************************************************************************)
(* C11: for every order block detectOrderBlocks returns, mitigated is true *)
(* iff some candle after the block's origin candle has low <= bottom       *)
(* (bullish block) or high >= top (bearish block); mitigationTime is the   *)
(* time of the first such candle; while the function runs the flag, once   *)
(* set, is not cleared nor set again.                                      *)
(***************************************************************************)
\* The indices of the candles after the block's origin that trade through it.
C11_Through(b) ==
    {i \in 0..(Len(candles) - 1) :
        /\ At(candles, i).time > b.time
        /\ \/ b.type = "BULLISH" /\ At(candles, i).low <= b.bottom
           \/ b.type = "BEARISH" /\ At(candles, i).high >= b.top}

C11_Returned ==
    pc = "returned" =>
        \A k \in 1..Len(blocks) :
            /\ blocks[k].mitigated <=> C11_Through(blocks[k]) # {}
            /\ blocks[k].mitigated =>
                blocks[k].mitigationTime = Some(At(candles, SetMin(C11_Through(blocks[k]))).time)
            /\ ~ blocks[k].mitigated => blocks[k].mitigationTime = Undefined

C11_Step ==
    (pc \in {"forBlock", "mitigation"} /\ pc' # "returned") =>
        /\ Len(blocks') = Len(blocks)
        /\ \A k \in 1..Len(blocks) :
            blocks[k].mitigated => blocks'[k] = blocks[k]

C11_FilterKeeps ==
    (pc = "forBlock" /\ pc' = "returned") =>
        \A k \in 1..Len(blocks') : \E j \in 1..Len(blocks) : blocks'[k] = blocks[j]

C11_MitigatedOnceAtFirst == []C11_Returned /\ [][C11_Step /\ C11_FilterKeeps]_vars

\* A returned bullish block that the candle right after its origin leaves
\* alone and a later candle mitigates.
C11_Witness ==
    /\ pc = "returned"
    /\ \E k \in 1..Len(blocks) :
        /\ blocks[k].type = "BULLISH"
        /\ blocks[k].mitigated
        /\ blocks[k].mitigationTime[1] > blocks[k].time + 1

(***************************************************************************)
(* C12: runBacktest appends a trade only if the reward:risk to target 1,   *)
(* |tp1 - entry| / |entry - stop|, is at least 2; the boundary is          *)
(* inclusive: the setup with entry 100, stop 99 and target 1 at 102 (the   *)
(* last close being 100), whose ratio is exactly 2, passes the filter.     *)
(***************************************************************************)
C12_Reward(t) == Abs(t.tp1 - t.entry)

C12_Risk(t) == Abs(t.entry - t.stopLoss)

C12_RewardRiskAtLeastTwo ==
    /\ \A k \in 1..Len(trades) :
        /\ C12_Risk(trades[k]) > 0
        /\ C12_Reward(trades[k]) >= 2 * C12_Risk(trades[k])
        /\ trades[k].rr.d # 0 /\ trades[k].rr.n >= 2 * trades[k].rr.d
    /\ Tp1Of("LONG", 100, 100) = 102
    /\ ~ RRTooLow([direction |-> "LONG", fvgEntry |-> 100, stopLoss |-> 99], 100)
    /\ RRTooLow([direction |-> "LONG", fvgEntry |-> 100, stopLoss |-> 98], 100)

\* A trade of the log whose ratio is exactly 2.
C12_Witness ==
    \E k \in 1..Len(trades) :
        /\ C12_Risk(trades[k]) > 0
        /\ C12_Reward(trades[k]) = 2 * C12_Risk(trades[k])
        /\ trades[k].rr = Frac(2, 1)

(***************************************************************************)
(* C13: every trade of runBacktest's trade log has grade A or A+, the      *)
(* grade of the council it carries; a candidate whose council grade is B   *)
(* or C is never appended.                                                 *)
(***************************************************************************)
C13_OnlyTopGrades ==
    \A k \in 1..Len(trades) :
        /\ trades[k].grade \in {"A", "A+"}
        /\ trades[k].council.grade = trades[k].grade

\* The run is over and its log holds two trades, graded A+ on a consensus
\* score of 90 or more.
C13_Witness ==
    /\ pc = "returned"
    /\ Len(trades) = 2
    /\ \A k \in 1..2 : trades[k].grade = "A+" /\ trades[k].council.consensusScore.n >= 90

(***************************************************************************)
(* C14: runBacktest called with fewer than 100 candles fails (it throws,   *)
(* so the promise rejects) and produces no trade and no metrics; called    *)
(* with 100 candles or more it always runs to the end of the window and    *)
(* returns a result, metrics included: it never throws, it can always take *)
(* its next step, and the steps it has left to take run out.               *)
(***************************************************************************)
C14_Refused ==
    len < 100 => pc # "returned" /\ pc # "loop" /\ trades = <<>> /\ metrics = Null

C14_Accepted ==
    /\ len >= 100 => pc # "thrown"
    /\ pc = "returned" =>
        /\ walkI >= len - TailCandles
        /\ metrics # Null
        /\ metrics.totalTrades = Len(trades)

\* Until it has thrown or returned, runBacktest can take a step: the entry
\* and the outcome scan always have one; an iteration of the walk either
\* goes on, starts a scan or ends the loop, and booking a trade has no
\* condition.
C14_CanStep ==
    /\ pc \in {"runBacktest", "loop", "scan", "book", "thrown", "returned"}
    /\ pc = "runBacktest" => ENABLED BtEnter
    /\ pc = "scan" => ENABLED (BtScanStep \/ BtScanEnd)
    /\ pc = "loop" => (walkI < len - TailCandles \/ walkI >= len - TailCandles)
    /\ pc = "book" => cur # NoTrade /\ outcome \in {"TP1_HIT", "TP2_HIT", "SL_HIT"}

\* A whole number that every step of runBacktest lowers: the iterations the
\* walk has left, each counted for more than a whole outcome scan, less the
\* part of the scan under way that is done.
C14_Left ==
    LET perIteration == ScanWindow + 3
        ahead == (len + SkipAfterTrade + 2 - walkI) * perIteration
    IN  CASE pc = "runBacktest" -> (len + SkipAfterTrade + 3) * perIteration
          [] pc = "loop" -> ahead
          [] pc = "scan" -> ahead - (scanJ - walkI)
          [] pc = "book" -> ahead - (ScanWindow + 1)
          [] OTHER -> 0

C14_Lowers == C14_Left' < C14_Left /\ C14_Left' >= 0

C14_FailsBelowHundred ==
    /\ []C14_Refused
    /\ []C14_Accepted
    /\ []C14_CanStep
    /\ [][C14_Lowers]_vars

\* The call with 99 candles has thrown.
C14_Witness == pc = "thrown" /\ len = 99 /\ trades = <<>> /\ metrics = Null

(***************************************************************************)
(* Specification of calcMetrics called on its own: any bounded list of     *)
(* trades with whole profits and losses.                                   *)
(***************************************************************************)
MetricPnls == {-50, 0, 40, 100}

MetricTrade(pnl) ==
    [pnl |-> Frac(pnl, 1), rr |-> Frac(2, 1), killzone |-> IF pnl < 0 THEN "LKZ" ELSE "NYKZ"]

MetricTrades == {[k \in 1..Len(ps) |-> MetricTrade(ps[k])] : ps \in SeqsUpTo(MetricPnls, MaxMetricTrades)}

InitMetrics ==
    /\ pc = "calcMetrics"
    /\ trades \in MetricTrades
    /\ config \in [initialBalance : {0, 1000}, riskPerTrade : {1}, timeframe : {"4h"}]
    /\ metrics = Null
    /\ len = 0 /\ walkI = 0 /\ runBalance = Frac(0, 1)
    /\ cur = NoTrade /\ scanJ = 0 /\ fc = NoCandle /\ outcome = None /\ exitPrice = 0
    /\ IdleSwings /\ IdleSweeps /\ IdleFvgs /\ IdleAgents /\ IdleCouncil /\ IdleRest

MetricsRun ==
    /\ pc = "calcMetrics"
    /\ metrics' = CalcMetrics(trades, config)
    /\ pc' = "returned"
    /\ UNCHANGED <<config, len, walkI, runBalance, trades, cur, scanJ, fc, outcome, exitPrice>>
    /\ UNCHANGED BtOthers

NextMetrics == MetricsRun

SpecMetrics == InitMetrics /\ [][NextMetrics]_vars

(***************************************************************************)
(* C17: calcMetrics' profit factor is grossWin / grossLoss when the gross  *)
(* losses are positive, the sentinel 999 when the gross losses are zero    *)
(* and the gross wins positive, and 0 when both are zero; gross wins 100   *)
(* with no loss give 999, no win and no loss give 0.                       *)
(***************************************************************************)
\* The gross win and the gross loss of the trades, whose pnls are whole.
C17_Wins ==
    SeqSum([k \in 1..Len(trades) |-> IF trades[k].pnl.n > 0 THEN trades[k].pnl.n ELSE 0])

C17_Losses ==
    SeqSum([k \in 1..Len(trades) |-> IF trades[k].pnl.n <= 0 THEN -trades[k].pnl.n ELSE 0])

C17_ProfitFactor ==
    (pc = "returned" /\ metrics # Null) =>
        /\ C17_Losses > 0 =>
            metrics.profitFactor.n * C17_Losses = C17_Wins * metrics.profitFactor.d
        /\ (C17_Losses = 0 /\ C17_Wins > 0) => metrics.profitFactor = Frac(999, 1)
        /\ (C17_Losses = 0 /\ C17_Wins = 0) => metrics.profitFactor = Frac(0, 1)
        /\ metrics.profitFactor.d > 0
        /\ trades = <<MetricTrade(100)>> => metrics.profitFactor = Frac(999, 1)
        /\ trades = <<>> => metrics.profitFactor = Frac(0, 1)

\* Gross wins 100, gross losses 0: the sentinel.
C17_Witness ==
    /\ pc = "returned"
    /\ trades = <<MetricTrade(100)>>
    /\ C17_Wins = 100 /\ C17_Losses = 0
    /\ metrics.profitFactor = Frac(999, 1)

(***************************************************************************)
(* Specification of runCouncil called on any list of signals: the first n  *)
(* of the five scenario signals, n from 0 to 5, under every pattern of     *)
(* bullish flags.                                                          *)
(***************************************************************************)
SignalLists ==
    {SubSeq(Panel(ScenarioScores, flags), 1, n) : flags \in [1..5 -> BOOLEAN], n \in 0..5}

InitCouncilAny ==
    /\ pc = "runCouncil"
    /\ agents \in SignalLists
    /\ council = NoCouncil
    /\ IdleSwings /\ IdleSweeps /\ IdleFvgs /\ IdleAgents /\ IdleBacktest /\ IdleRest

SpecCouncilAny == InitCouncilAny /\ [][NextCouncil]_vars

(***************************************************************************)
(* C15: no division of the core stores a non-finite value when its         *)
(* denominator is zero, a defined default (0 or 100) being returned        *)
(* instead; in particular the consensus score of the council runCouncil    *)
(* returns is a finite number, and is 0 or 100 when the total weight is 0  *)
(* (the agent list is empty).                                              *)
(***************************************************************************)
C15_NoNonFinite ==
    Returned =>
        /\ council.consensusScore.d # 0
        /\ agents = <<>> => council.consensusScore \in {Frac(0, 1), Frac(100, 1)}

(***************************************************************************)
(* C16: two runs of runCouncil on equal signals return equal results in    *)
(* every field, whenever they are run: the council a run returned is the   *)
(* council a run on the same signals returns at any other time.            *)
(***************************************************************************)
C16_SameWhenever ==
    Returned => \A now \in Clock : council = RunCouncil(agents, now)

(***************************************************************************)
(* Specification of detectFVGs on prices around 100, held in hundredths,   *)
(* where gaps of 0.04 percent, of 0.05 percent and of more meet the        *)
(* default minSizePercent 0.05.                                            *)
(***************************************************************************)
\* The three candles of the spec's scenario: highs 100, 98, 102.5, the last
\* candle's low 102.5.
ScenarioGapCandles ==
    <<[time |-> 0, high |-> 10000, low |-> 9700],
      [time |-> 1, high |-> 9800, low |-> 9700],
      [time |-> 2, high |-> 10250, low |-> 10250]>>

GapBars ==
    {[high |-> 10000, low |-> 9700], [high |-> 9800, low |-> 9700]}
    \cup {[high |-> x, low |-> x] : x \in {9995, 9996, 10000, 10004, 10005, 10250}}

InitFvgGaps ==
    /\ pc = "detectFVGs"
    /\ \/ \E n \in 3..MaxGapCandles : \E bars \in [1..n -> GapBars] : candles = Timed(bars)
       \/ candles = ScenarioGapCandles
    /\ leftLen = 0 /\ rightLen = 0 /\ swings = <<>>
    /\ timeframe = "15m"
    /\ levels = <<>> /\ level = NoLevel /\ swingK = 0 /\ scanI = 0
    /\ minSizePercent = Frac(5, 100)
    /\ fvgs = <<>> /\ fvgK = 0 /\ fillI = 0
    /\ IdleDecision

SpecFvgGaps == InitFvgGaps /\ [][NextFvgs]_vars

(***************************************************************************)
(* C18: detectFVGs emits a bullish gap for a window (prev, curr, next) iff *)
(* next.low exceeds prev.high by at least minSizePercent percent of        *)
(* prev.high, with top = next.low, bottom = prev.high and midpoint their   *)
(* mean, and a bearish gap iff the mirror condition holds on prev.low and  *)
(* next.high; prev.high = 100, next.low = 102.5 and minSizePercent 0.05    *)
(* yield exactly one gap, bullish, top 102.5, bottom 100, midpoint 101.25. *)
(***************************************************************************)
\* x is at least pct percent of base
C18_AtLeastPercent(x, base, pct) == x * 100 * pct.d >= pct.n * base

\* The gaps wanted of the window around candle i, as <<type, time, top, bottom>>
C18_Wanted(i) ==
    LET prev == At(candles, i - 1)
        next == At(candles, i + 1)
    IN  (IF next.low > prev.high
            /\ C18_AtLeastPercent(next.low - prev.high, prev.high, minSizePercent)
            THEN {<<"BULLISH", At(candles, i).time, next.low, prev.high>>} ELSE {})
        \cup
        (IF next.high < prev.low
            /\ C18_AtLeastPercent(prev.low - next.high, prev.low, minSizePercent)
            THEN {<<"BEARISH", At(candles, i).time, prev.low, next.high>>} ELSE {})

C18_AllWanted == UNION {C18_Wanted(i) : i \in 1..(Len(candles) - 2)}

C18_GapsEmitted ==
    pc \in {"forFvg", "fillScan", "returned"} =>
        /\ {<<fvgs[k].type, fvgs[k].time, fvgs[k].top, fvgs[k].bottom>> : k \in 1..Len(fvgs)}
            = C18_AllWanted
        /\ Len(fvgs) = Cardinality(C18_AllWanted)
        /\ \A k \in 1..Len(fvgs) :
            /\ 2 * fvgs[k].midpoint.n = (fvgs[k].top + fvgs[k].bottom) * fvgs[k].midpoint.d
            /\ fvgs[k].top > fvgs[k].bottom
        /\ candles = ScenarioGapCandles =>
            /\ Len(fvgs) = 1
            /\ fvgs[1].type = "BULLISH"
            /\ fvgs[1].top = 10250 /\ fvgs[1].bottom = 10000
            /\ FracEq(fvgs[1].midpoint, Frac(10125, 1))

\* The scenario's three candles, their one gap returned.
C18_Witness ==
    /\ pc = "returned"
    /\ candles = ScenarioGapCandles
    /\ Len(fvgs) = 1
    /\ fvgs[1].type = "BULLISH" /\ fvgs[1].top = 10250 /\ fvgs[1].bottom = 10000

(***************************************************************************)
(* App.tsx: the live app.  The state is React's: an event handler runs to  *)
(* its end, then the component renders and the memos whose dependencies    *)
(* changed are recomputed, before the next event is handled.  An action is *)
(* one event with the render that follows it.  The SIGNAL tab is the one   *)
(* shown, and the run stays within one day of the clock.                   *)
(***************************************************************************)
\* const [balance] = useState(1000): there is no setter
APP_BALANCE == 1000

CONFIRM_PHRASE == "CONFIRM + EXECUTE REAL"

\* new Date(ms).toDateString(), as the number of the day
DayOf(ms) == ms \div 86400000

\* trades.filter(t => td.toDateString() === today.toDateString()).length
TradesToday(ts, now) ==
    Len(SelectSeq(ts, LAMBDA t : DayOf(t.executedAt) = DayOf(now)))

\* The council memo.  an is the analysis memo, tk the ticker, kz the killzone,
\* ts the journal; now is the clock of the render.  price * 0.007 and its
\* multiples are whole at the prices of the model.
CouncilMemo(an, tk, kz, ts, now) ==
    IF an = Null \/ tk = Null \/ tk.price = 0 THEN Null
    ELSE
        LET hasSetup == an.setups # <<>>
            dir == IF hasSetup THEN an.setups[1].direction
                   ELSE IF tk.change24h >= 0 THEN "LONG" ELSE "SHORT"
            price == tk.price
            entry == IF hasSetup THEN an.setups[1].fvgEntry ELSE price
            sl == IF hasSetup THEN an.setups[1].stopLoss
                  ELSE IF dir = "LONG" THEN price - (price * 91) \div 10000
                  ELSE price + (price * 91) \div 10000
            tp1 == IF dir = "LONG" THEN entry + (price * 175) \div 10000
                   ELSE entry - (price * 175) \div 10000
            tp2 == IF dir = "LONG" THEN entry + (price * 350) \div 10000
                   ELSE entry - (price * 350) \div 10000
            as == <<RunStructureAgent(an.tail, an.structure, dir),
                    RunLiquidityAgent(an.levels, price, dir),
                    RunArrayAgent(an.obs, an.fvgs, an.pdArray, price, dir),
                    RunRiskAgent(kz, Frac(APP_BALANCE, 1), TradesToday(ts, now), entry, sl, tp1,
                                 FALSE),
                    RunExecutionAgent(an.tail, entry, sl, tp1, tp2, dir,
                                      IF hasSetup THEN Some(an.setups[1].fvgEntry) ELSE Undefined,
                                      Undefined)>>
        IN  [council |-> RunCouncil(as, now), entry |-> entry, sl |-> sl, tp1 |-> tp1,
             tp2 |-> tp2, dir |-> dir]

\* What the app runs on.  Prices are ticks around 10000.
AppPrices == {10000}

\* Date.now()
AppClock == {0}

\* The analysis of a candle array on which everything is bullish, as
\* BullContext, on the timeframe tf the user selected.
AppBullContext(tf) ==
    [structure |-> BullContext.structure,
     levels |-> <<[status |-> "SWEPT", type |-> "LOW", price |-> 9800, strength |-> 100,
                   timeframe |-> tf],
                  [status |-> "ACTIVE", type |-> "HIGH", price |-> 10100, strength |-> 100,
                   timeframe |-> tf]>>,
     obs |-> <<[type |-> "BULLISH", top |-> 10050, bottom |-> 9950, mitigated |-> FALSE,
                strength |-> 80],
               [type |-> "BULLISH", top |-> 10050, bottom |-> 9950, mitigated |-> FALSE,
                strength |-> 80]>>,
     fvgs |-> <<[type |-> "BULLISH", midpoint |-> Frac(20000, 2), time |-> 1, filled |-> FALSE,
                 fillPercent |-> Frac(50, 1)]>>,
     swings |-> <<[type |-> "HIGH", price |-> 11000], [type |-> "LOW", price |-> 9900]>>,
     tail |-> [k \in 1..5 |-> [open |-> 9990, close |-> 10000]]]

AppContexts ==
    {AppBullContext("15m"),
     AppBullContext("4h"),
     [structure |-> <<>>,
      levels |-> <<[status |-> "SWEPT", type |-> "LOW", price |-> 9800, strength |-> 30,
                    timeframe |-> "15m"]>>,
      obs |-> <<>>, fvgs |-> <<>>, swings |-> <<>>,
      tail |-> [k \in 1..5 |-> [open |-> 10010, close |-> 10000]]]}

\* analysis.setups: none, or one setup with its stop 80 ticks away
AppSetupLists ==
    {<<>>, <<[direction |-> "LONG", fvgEntry |-> 10000, stopLoss |-> 9920]>>,
     <<[direction |-> "SHORT", fvgEntry |-> 10000, stopLoss |-> 10080]>>}

\* The analysis memo: null under 50 candles
AnalysisMemo(ctx, setups) ==
    [structure |-> ctx.structure, levels |-> ctx.levels, obs |-> ctx.obs, fvgs |-> ctx.fvgs,
     pdArray |-> CalcPDArray(ctx.swings, ctx.tail[Len(ctx.tail)].close),
     setups |-> setups, tail |-> ctx.tail]

AppAnalyses ==
    {Null, AnalysisMemo(AppBullContext("15m"), <<>>)}
    \cup {AnalysisMemo(ctx, setups) : ctx \in AppContexts, setups \in AppSetupLists \ {<<>>}}

\* killzone?.name
KillzoneName(kz) == IF kz = Null THEN Undefined ELSE Some(kz.name)

InitApp ==
    /\ pc = "App"
    /\ ticker = Null /\ analysis = Null /\ appCouncil = Null
    /\ \E mins \in BtMinutes : appKillzone = GetActiveKillzone(mins)
    /\ appTrades = <<>> /\ execMode = "SIMULATE" /\ confirmText = "" /\ showConfirm = FALSE
    /\ IdleSwings /\ IdleSweeps /\ IdleFvgs /\ IdleAgents /\ IdleCouncil /\ IdleBacktest
    /\ IdleOrderBlocks /\ IdleMore

AppOthers ==
    <<pc, swingVars, sweepVars, fvgVars, agentVars, councilVars, backtestVars, obVars, moreVars>>

\* The render recomputes the council memo.
Recompute(an, tk, kz, ts) == \E now \in AppClock : appCouncil' = CouncilMemo(an, tk, kz, ts, now)

\* useMarketData delivers a candle: the analysis memo and the council memo
\* are recomputed.
AppCandles ==
    /\ \E an \in AppAnalyses :
        /\ analysis' = an
        /\ Recompute(an, ticker, appKillzone, appTrades)
    /\ UNCHANGED <<ticker, appKillzone, appTrades, execMode, confirmText, showConfirm, AppOthers>>

\* useMarketData delivers a tick: the council memo depends on ticker?.price.
AppTicker ==
    /\ \E p \in AppPrices, ch \in {-1, 1} :
        /\ ticker' = [price |-> p, change24h |-> ch]
        /\ IF ticker = Null \/ ticker.price # p
            THEN Recompute(analysis, ticker', appKillzone, appTrades)
            ELSE UNCHANGED appCouncil
    /\ UNCHANGED <<analysis, appKillzone, appTrades, execMode, confirmText, showConfirm, AppOthers>>

\* The interval of useKillzone: the council memo depends on killzone?.name.
AppKillzoneTick ==
    /\ \E mins \in BtMinutes :
        /\ appKillzone' = GetActiveKillzone(mins)
        /\ IF KillzoneName(appKillzone') # KillzoneName(appKillzone)
            THEN Recompute(analysis, ticker, appKillzone', appTrades)
            ELSE UNCHANGED appCouncil
    /\ UNCHANGED <<ticker, analysis, appTrades, execMode, confirmText, showConfirm, AppOthers>>

\* The SIGNAL tab shows the council's card, with the mode buttons and the
\* confirm dialog below it.
CardShown == ticker # Null /\ ticker.price # 0 /\ appCouncil # Null

\* onClick={() => setExecMode(m)}
AppSetExecMode ==
    /\ CardShown
    /\ \E m \in {"SIMULATE", "REAL"} : execMode' = m
    /\ UNCHANGED <<ticker, analysis, appKillzone, appCouncil, appTrades, confirmText, showConfirm, AppOthers>>

\* The Trade put in the journal, with the fields read below.
AppTrade(c, now) ==
    [direction |-> c.dir, grade |-> c.council.grade, status |-> "ACTIVE", executedAt |-> now]

\* function executeTrade()
ExecuteTrade ==
    IF appCouncil = Null \/ ticker = Null \/ ticker.price = 0
        THEN UNCHANGED <<appCouncil, appTrades, confirmText, showConfirm>>
    ELSE IF execMode = "REAL" /\ confirmText # CONFIRM_PHRASE
        THEN showConfirm' = TRUE /\ UNCHANGED <<appCouncil, appTrades, confirmText>>
    ELSE /\ showConfirm' = FALSE
         /\ confirmText' = ""
         /\ IF APP_BALANCE < 30
             THEN UNCHANGED <<appCouncil, appTrades>>
             ELSE /\ \E now \in AppClock : appTrades' = <<AppTrade(appCouncil, now)>> \o appTrades
                  /\ Recompute(analysis, ticker, appKillzone, appTrades')

\* The execute button, which the card shows under grade A+ or A.
AppClickExecute ==
    /\ CardShown
    /\ appCouncil.council.grade \in {"A+", "A"}
    /\ Len(appTrades) < MaxAppTrades
    /\ ExecuteTrade
    /\ UNCHANGED <<ticker, analysis, appKillzone, execMode, AppOthers>>

\* onChange={e => setConfirmText(e.target.value)}
AppType ==
    /\ CardShown /\ showConfirm
    /\ \E text \in {"CONFIRM", CONFIRM_PHRASE} : confirmText' = text
    /\ UNCHANGED <<ticker, analysis, appKillzone, appCouncil, appTrades, execMode, showConfirm, AppOthers>>

\* The dialog's CONFIRM button, and the Enter key in its input.
AppConfirm ==
    /\ CardShown /\ showConfirm
    /\ Len(appTrades) < MaxAppTrades
    /\ ExecuteTrade
    /\ UNCHANGED <<ticker, analysis, appKillzone, execMode, AppOthers>>

\* The dialog's CANCEL button.
AppCancel ==
    /\ CardShown /\ showConfirm
    /\ showConfirm' = FALSE
    /\ confirmText' = ""
    /\ UNCHANGED <<ticker, analysis, appKillzone, appCouncil, appTrades, execMode, AppOthers>>

NextApp ==
    \/ AppCandles
    \/ AppTicker
    \/ AppKillzoneTick
    \/ AppSetExecMode
    \/ AppClickExecute
    \/ AppType
    \/ AppConfirm
    \/ AppCancel

SpecApp == InitApp /\ [][NextApp]_vars

(***************************************************************************)
(* C19: in the live app executeTrade records no trade while the Risk       *)
(* evaluator of the current council is hard-blocked (two or more trades    *)
(* executed today, or a balance below 30), whatever the grade: the journal *)
(* never gains a third trade of the same day.                              *)
(***************************************************************************)
\* The Risk signal of the council memo is the one the hard gate returns.
C19_HardBlocked ==
    /\ appCouncil # Null
    /\ \A now \in AppClock : RiskBlocked(Frac(APP_BALANCE, 1), TradesToday(appTrades, now))
    /\ appCouncil.council.agents[4].agent = "RISK"
    /\ appCouncil.council.agents[4].score = Frac(0, 1)

C19_NoTradeWhileBlocked ==
    /\ [][C19_HardBlocked => appTrades' = appTrades]_vars
    /\ [](\A now \in AppClock : TradesToday(appTrades, now) <= 2)

(***************************************************************************)
(* C20: in the live app a trade is added to the journal only if the grade  *)
(* of the council at the moment of recording is A or A+, under every       *)
(* interleaving of the updates that recompute the council, the mode        *)
(* switches and the confirm dialog's open, type, CONFIRM and CANCEL.       *)
(***************************************************************************)
C20_RecordedUnderTopGrade ==
    [][appTrades' # appTrades =>
        /\ appCouncil # Null
        /\ appCouncil.council.grade \in {"A+", "A"}]_vars

(***************************************************************************)
(* utils/ict.ts: detectMarketStructure.  An action is one iteration of the *)
(* scan.  swingIndex is not a field of the code's StructurePoint: it keeps *)
(* the index of the swing the event was compared with.                     *)
(***************************************************************************)
\* swings.find(s => s.type === t), Undefined when there is none
FirstOfType(sws, t) ==
    LET hits == {k \in 1..Len(sws) : sws[k].type = t}
    IN  IF hits = {} THEN Undefined ELSE Some(sws[SetMin(hits)])

\* swings.filter(s => s.type === t && s.index <= i).sort((a, b) => b.index - a.index)[0]
LatestOfType(sws, t, i) ==
    LET hits == {k \in 1..Len(sws) : sws[k].type = t /\ sws[k].index <= i}
        top == SetMax({sws[k].index : k \in hits})
    IN  IF hits = {} THEN Undefined
        ELSE Some(sws[SetMin({k \in hits : sws[k].index = top})])

BullType(tr) == IF tr = "UP" THEN "BOS_BULL" ELSE "CHoCH_BULL"

BearType(tr) == IF tr = "DOWN" THEN "BOS_BEAR" ELSE "CHoCH_BEAR"

\* A CHoCH that leaves the trend as it was.
TrendKept(tr, to) == tr

\* if (!isBOS) trend = 'UP', and = 'DOWN'
TrendAfter(tr, to) == IF tr # to THEN to ELSE tr

\* The close test taking a close at the broken price for beyond it.
ClosedAtOrAbove(c, price) == c.close >= price

\* confirmed: candle.close > lastHigh.price
ClosedAbove(c, price) == c.close > price

\* confirmed: candle.close < lastLow.price
ClosedBelow(c, price) == c.close < price

StructurePoint(c, swing, type, confirmed) ==
    [time |-> c.time, price |-> swing.price, type |-> type, confirmed |-> confirmed,
     swingIndex |-> swing.index]

\* What detectMarketStructure is run on: candles of five kinds, and the
\* swings detectSwings finds in them with a lookback of no candle and of one.
MsBars ==
    {[high |-> 2, low |-> 2, close |-> 2], [high |-> 2, low |-> 1, close |-> 1],
     [high |-> 3, low |-> 1, close |-> 3], [high |-> 3, low |-> 0, close |-> 1],
     [high |-> 4, low |-> 0, close |-> 3]}

\* Candles whose highs and lows move together, for one array more of length.
MsNarrowBars ==
    {[high |-> 3, low |-> 2, close |-> 3], [high |-> 2, low |-> 1, close |-> 2],
     [high |-> 1, low |-> 0, close |-> 0]}

MsTimed(bars) ==
    [k \in 1..Len(bars) |->
        [time |-> k - 1, high |-> bars[k].high, low |-> bars[k].low, close |-> bars[k].close]]

InitStructure ==
    /\ pc = "detectMarketStructure"
    /\ \/ /\ \E n \in 1..MaxMsCandles : \E bars \in [1..n -> MsBars] : candles = MsTimed(bars)
          /\ \E lookback \in 0..1 : leftLen = lookback /\ rightLen = lookback
       \/ /\ \E bars \in [1..(MaxMsCandles + 1) -> MsNarrowBars] : candles = MsTimed(bars)
          /\ leftLen = 1 /\ rightLen = 1
    /\ swings = DetectSwings(candles, leftLen, rightLen)
    /\ trend = None /\ lastHigh = Undefined /\ lastLow = Undefined /\ msI = 0 /\ msPoints = <<>>
    /\ fvgSetups = <<>> /\ IdleMarketData
    /\ IdleSweeps /\ IdleFvgs /\ IdleAgents /\ IdleCouncil /\ IdleBacktest
    /\ IdleOrderBlocks /\ IdleApp

MsOthers ==
    <<swingVars, sweepVars, fvgVars, agentVars, councilVars, backtestVars, obVars, appVars,
      fvgSetups, mdVars>>

\* The early return and the declarations before the loop.
MsEnter ==
    /\ pc = "detectMarketStructure"
    /\ msPoints' = <<>>
    /\ IF Len(swings) < 4
        THEN pc' = "returned" /\ UNCHANGED <<trend, lastHigh, lastLow, msI>>
        ELSE /\ trend' = (IF swings[1].type = "LOW" THEN "UP" ELSE "DOWN")
             /\ lastHigh' = FirstOfType(swings, "HIGH")
             /\ lastLow' = FirstOfType(swings, "LOW")
             /\ msI' = 1
             /\ pc' = "scan"
    /\ UNCHANGED MsOthers

\* One iteration: the check against lastHigh, then the check against lastLow.
MsStep ==
    /\ pc = "scan"
    /\ msI < Len(candles)
    /\ LET c == At(candles, msI)
           bull == lastHigh # Undefined /\ c.high > lastHigh[1].price
           afterHigh == IF bull THEN TrendAfter(trend, "UP") ELSE trend
           pushed == IF bull
                        THEN Append(msPoints, StructurePoint(c, lastHigh[1], BullType(trend),
                                                           ClosedAbove(c, lastHigh[1].price)))
                        ELSE msPoints
           bear == lastLow # Undefined /\ c.low < lastLow[1].price
       IN  /\ lastHigh' = (IF bull THEN LatestOfType(swings, "HIGH", msI) ELSE lastHigh)
           /\ lastLow' = (IF bear THEN LatestOfType(swings, "LOW", msI) ELSE lastLow)
           /\ trend' = (IF bear THEN TrendAfter(afterHigh, "DOWN") ELSE afterHigh)
           /\ msPoints' = (IF bear
                            THEN Append(pushed, StructurePoint(c, lastLow[1], BearType(afterHigh),
                                                               ClosedBelow(c, lastLow[1].price)))
                            ELSE pushed)
    /\ msI' = msI + 1
    /\ UNCHANGED <<pc, MsOthers>>

\* The loop is over: return points
MsReturn ==
    /\ pc = "scan"
    /\ msI >= Len(candles)
    /\ pc' = "returned"
    /\ UNCHANGED <<msVars, MsOthers>>

NextStructure ==
    \/ MsEnter
    \/ MsStep
    \/ MsReturn

SpecStructure == InitStructure /\ [][NextStructure]_vars

(***************************************************************************)
(* C21: detectMarketStructure keeps a trend seeded UP iff the first swing  *)
(* is a LOW (else DOWN); a candle whose high exceeds the reference swing   *)
(* HIGH emits BOS_BULL if the trend is UP and otherwise CHoCH_BULL, which  *)
(* sets the trend to UP; a candle whose low is below the reference swing   *)
(* LOW emits BOS_BEAR if the trend is DOWN and otherwise CHoCH_BEAR, which *)
(* sets the trend to DOWN; an event is confirmed iff the candle's close is *)
(* strictly beyond the broken price.                                       *)
(***************************************************************************)
C21_Seeded ==
    (pc = "scan" /\ msI = 1) =>
        /\ trend \in {"UP", "DOWN"}
        /\ (trend = "UP") <=> (swings[1].type = "LOW")

\* The event the claim wants of candle c against the swing ref under trend tr.
C21_Event(c, ref, side, tr) ==
    [time |-> c.time,
     price |-> ref.price,
     type |-> IF side = "BULL" THEN (IF tr = "UP" THEN "BOS_BULL" ELSE "CHoCH_BULL")
              ELSE (IF tr = "DOWN" THEN "BOS_BEAR" ELSE "CHoCH_BEAR"),
     confirmed |-> IF side = "BULL" THEN c.close > ref.price ELSE c.close < ref.price]

C21_Emitted(k) ==
    [time |-> msPoints'[k].time, price |-> msPoints'[k].price, type |-> msPoints'[k].type,
     confirmed |-> msPoints'[k].confirmed]

C21_Step ==
    (pc = "scan" /\ msI' = msI + 1) =>
        LET c == At(candles, msI)
            above == lastHigh # Undefined /\ c.high > lastHigh[1].price
            below == lastLow # Undefined /\ c.low < lastLow[1].price
            mid == IF above THEN "UP" ELSE trend
            wanted == (IF above THEN <<C21_Event(c, lastHigh[1], "BULL", trend)>> ELSE <<>>)
                      \o (IF below THEN <<C21_Event(c, lastLow[1], "BEAR", mid)>> ELSE <<>>)
        IN  /\ Len(msPoints') = Len(msPoints) + Len(wanted)
            /\ SubSeq(msPoints', 1, Len(msPoints)) = msPoints
            /\ \A k \in 1..Len(wanted) : C21_Emitted(Len(msPoints) + k) = wanted[k]
            /\ trend' = (IF below THEN "DOWN" ELSE mid)

C21_BreaksClassified == []C21_Seeded /\ [][C21_Step]_vars

\* A returned log with a continuation and a reversal of each side, confirmed
\* and unconfirmed events among them.
C21_Witness ==
    /\ pc = "returned"
    /\ \E k \in 1..Len(msPoints) : msPoints[k].type = "CHoCH_BULL"
    /\ \E k \in 1..Len(msPoints) : msPoints[k].type = "CHoCH_BEAR"
    /\ \E k \in 1..Len(msPoints) : msPoints[k].type \in {"BOS_BULL", "BOS_BEAR"}
    /\ \E k \in 1..Len(msPoints) : msPoints[k].confirmed
    /\ \E k \in 1..Len(msPoints) : ~msPoints[k].confirmed

(***************************************************************************)
(* C22: the reference swing HIGH (resp. LOW) a candle is compared with is  *)
(* the most recent swing of that kind at or before the candle that has not *)
(* been broken yet: a break event never refers to a swing whose index is   *)
(* after its triggering candle, and no swing is reported broken by more    *)
(* than one event.                                                         *)
(***************************************************************************)
C22_Side(type) == IF IsBull(type) THEN "HIGH" ELSE "LOW"

C22_ReferenceIsPastAndUnbroken ==
    /\ \A k \in 1..Len(msPoints) : msPoints[k].swingIndex <= msPoints[k].time
    /\ \A a, b \in 1..Len(msPoints) :
        (a # b /\ C22_Side(msPoints[a].type) = C22_Side(msPoints[b].type))
            => msPoints[a].swingIndex # msPoints[b].swingIndex

(***************************************************************************)
(* C28: in the event log of detectMarketStructure reversals alternate:     *)
(* between two CHoCH_BULL events there is a CHoCH_BEAR event and between   *)
(* two CHoCH_BEAR events a CHoCH_BULL event; a BOS_BULL is emitted only    *)
(* while the tracked trend is UP and a BOS_BEAR only while it is DOWN.     *)
(***************************************************************************)
C28_Between(a, b, type) == \E k \in (a + 1)..(b - 1) : msPoints[k].type = type

\* The trend tracked when event k was emitted: what the last reversal before
\* it set, the seed when there was none.
C28_TrendAt(k) ==
    LET flips == {j \in 1..(k - 1) : IsChoCH(msPoints[j].type)}
    IN  IF flips = {} THEN (IF swings[1].type = "LOW" THEN "UP" ELSE "DOWN")
        ELSE IF msPoints[SetMax(flips)].type = "CHoCH_BULL" THEN "UP" ELSE "DOWN"

C28_ReversalsAlternate ==
    /\ \A a, b \in 1..Len(msPoints) :
        /\ (a < b /\ msPoints[a].type = "CHoCH_BULL" /\ msPoints[b].type = "CHoCH_BULL")
            => C28_Between(a, b, "CHoCH_BEAR")
        /\ (a < b /\ msPoints[a].type = "CHoCH_BEAR" /\ msPoints[b].type = "CHoCH_BEAR")
            => C28_Between(a, b, "CHoCH_BULL")
    /\ \A k \in 1..Len(msPoints) :
        /\ msPoints[k].type = "BOS_BULL" => C28_TrendAt(k) = "UP"
        /\ msPoints[k].type = "BOS_BEAR" => C28_TrendAt(k) = "DOWN"

\* A returned log with two reversals of one side, and a continuation.
C28_Witness ==
    /\ pc = "returned"
    /\ \E a, b \in 1..Len(msPoints) :
        a < b /\ msPoints[a].type = msPoints[b].type /\ IsChoCH(msPoints[a].type)
    /\ \E k \in 1..Len(msPoints) : msPoints[k].type \in {"BOS_BULL", "BOS_BEAR"}

(***************************************************************************)
(* C23: every order block detectOrderBlocks returns has a strength that is *)
(* greater than 20 and at most 100.                                        *)
(***************************************************************************)
C23_StrengthInRange ==
    pc = "returned" =>
        \A k \in 1..Len(blocks) :
            /\ blocks[k].strength.d # 0
            /\ blocks[k].strength.n > 20 * blocks[k].strength.d
            /\ blocks[k].strength.n <= 100 * blocks[k].strength.d

(***************************************************************************)
(* utils/liquidity.ts: detectSweepFVGSetups, calcSetupQuality              *)
(***************************************************************************)
\* The whole of detectLiquiditySweeps as a function of its arguments: the
\* level of a swing, swept by the first candle after it that sweeps it.
LevelOf(cs, swing, tf) ==
    LET hits == {i \in (swing.index + 1)..(Len(cs) - 1) : Sweeps(swing, At(cs, i))}
        fresh == NewLevel(cs, swing, tf)
    IN  IF hits = {} THEN fresh
        ELSE [fresh EXCEPT !.status = "SWEPT",
                           !.sweepTime = Some(At(cs, SetMin(hits)).time),
                           !.sweepCandle = Some(At(cs, SetMin(hits)))]

DetectLiquiditySweeps(cs, tf, left, right) ==
    LET sws == DetectSwings(cs, left, right)
    IN  [k \in 1..Len(sws) |-> LevelOf(cs, sws[k], tf)]

\* candles.findIndex(c => c.time === t), -1 when there is none
FindIndexTimeEq(cs, t) ==
    LET hits == {i \in 0..(Len(cs) - 1) : At(cs, i).time = t}
    IN  IF hits = {} THEN -1 ELSE SetMin(hits)

\* The body test letting a body of exactly 0.3% through.
IsDisplacementInclusive(body, open) == body > 0 /\ body * 1000 >= 3 * open

\* body > 0 && body / curr.open > 0.003
IsDisplacement(body, open) == body > 0 /\ body * 1000 > 3 * open

\* Math.min(100, Math.round(score))
CalcSetupQuality(lv, body, open, fvgSize) ==
    LET score == FracAdd(FracAdd(Frac(lv.strength * 4, 10),
                                 FracMin(30, Reduce(Frac(body * 3000, open)))),
                         FracAdd(FracMin(20, FracMul(fvgSize, Frac(40, 1))),
                                 Frac(IF lv.status = "SWEPT" THEN 10 ELSE 0, 1)))
    IN  FracMin(100, MathRound(score))

\* The setups the window around candle i gives for the level lv: one or none.
SetupsAt(cs, lv, i, minPct) ==
    LET prev == At(cs, i - 1)
        curr == At(cs, i)
        next == At(cs, i + 1)
        short == lv.type = "HIGH"
        body == IF short THEN curr.open - curr.close ELSE curr.close - curr.open
        gapped == IF short THEN next.high < prev.low ELSE next.low > prev.high
        fvgTop == IF short THEN prev.low ELSE next.low
        fvgBottom == IF short THEN next.high ELSE prev.high
        fvgSize == Reduce(Frac((fvgTop - fvgBottom) * 100, fvgBottom))
    IN  IF IsDisplacement(body, curr.open) /\ gapped
            /\ GapIsLargeEnough(fvgTop - fvgBottom, fvgBottom, minPct)
            THEN <<[sweep |-> lv,
                    displacementCandle |-> curr,
                    fvgEntry |-> Frac(fvgTop + fvgBottom, 2),
                    fvgTop |-> fvgTop, fvgBottom |-> fvgBottom,
                    stopLoss |-> IF short THEN Frac(lv.price * 1002, 1000)
                                 ELSE Frac(lv.price * 998, 1000),
                    direction |-> IF short THEN "SHORT" ELSE "LONG",
                    quality |-> CalcSetupQuality(lv, body, curr.open, fvgSize)]>>
            ELSE <<>>

\* for (let i = sweepCandleIdx + 1; i < Math.min(sweepCandleIdx + 6, candles.length - 1); i++)
RECURSIVE SetupWindows(_, _, _, _, _)
SetupWindows(cs, lv, i, last, minPct) ==
    IF i < last
        THEN SetupsAt(cs, lv, i, minPct) \o SetupWindows(cs, lv, i + 1, last, minPct)
        ELSE <<>>

\* One turn of for (const level of sweptLevels)
SetupsOfLevel(cs, lv, minPct) ==
    LET sweepCandleIdx == FindIndexTimeEq(cs, lv.sweepTime[1])
    IN  IF sweepCandleIdx < 1 \/ sweepCandleIdx >= Len(cs) - 2 THEN <<>>
        ELSE SetupWindows(cs, lv, sweepCandleIdx + 1,
                          Min(sweepCandleIdx + 6, Len(cs) - 1), minPct)

RECURSIVE SetupsLoop(_, _, _)
SetupsLoop(cs, swept, minPct) ==
    IF swept = <<>> THEN <<>>
    ELSE SetupsOfLevel(cs, Head(swept), minPct) \o SetupsLoop(cs, Tail(swept), minPct)

\* Array.prototype.sort with (a, b) => b.quality - a.quality: stable, descending.
RECURSIVE InsertByQuality(_, _)
InsertByQuality(sorted, x) ==
    IF sorted = <<>> THEN <<x>>
    ELSE IF FracLess(Head(sorted).quality, x.quality)
        THEN <<x>> \o sorted
        ELSE <<Head(sorted)>> \o InsertByQuality(Tail(sorted), x)

RECURSIVE SortByQuality(_)
SortByQuality(s) ==
    IF s = <<>> THEN <<>>
    ELSE InsertByQuality(SortByQuality(SubSeq(s, 1, Len(s) - 1)), s[Len(s)])

DetectSweepFVGSetups(cs, lvls, minPct) ==
    LET sweptLevels == SelectSeq(lvls, LAMBDA l : l.status = "SWEPT" /\ l.sweepCandle # Undefined)
    IN  SortByQuality(SetupsLoop(cs, sweptLevels, minPct))

(***************************************************************************)
(* Specification of detectSweepFVGSetups, run as the program runs it: on   *)
(* the levels detectLiquiditySweeps finds in the same candles.  A swing    *)
(* high at 1000 is swept at candle 3; a number of quiet candles and then   *)
(* three candles of any kind follow.  The other half of the arrays is the  *)
(* mirror image, around a swing low at 1000.                               *)
(***************************************************************************)
Bar(o, h, l, c) == [open |-> o, high |-> h, low |-> l, close |-> c]

SweepPrefix ==
    <<Bar(990, 995, 985, 990), Bar(995, 1000, 990, 995), Bar(992, 995, 988, 990),
      Bar(995, 1005, 990, 992)>>

QuietBar == Bar(1003, 1003, 1003, 1003)

\* A candle below the level, a bearish candle with a large body, one with a
\* body of exactly 0.3%, a candle further down, a candle above the level, a
\* candle under that one, a bullish candle with a large body.
SetupBars ==
    {Bar(985, 990, 980, 985), Bar(1015, 1016, 970, 972), Bar(1000, 1001, 996, 997),
     Bar(965, 968, 960, 966), Bar(1025, 1030, 1020, 1028), Bar(1008, 1010, 1004, 1006),
     Bar(972, 1016, 970, 1015)}

\* The candle reflected in the price 1000.
Mirror(b) == Bar(2000 - b.open, 2000 - b.low, 2000 - b.high, 2000 - b.close)

SetupTimed(bars) == [k \in 1..Len(bars) |-> [time |-> k - 1] @@ bars[k]]

InitSetups ==
    /\ pc = "detectSweepFVGSetups"
    /\ \E quiet \in 0..MaxQuiet, tail \in [1..3 -> SetupBars], mirrored \in BOOLEAN :
        LET bars == SweepPrefix \o [k \in 1..quiet |-> QuietBar] \o tail
        IN  candles = SetupTimed(IF mirrored THEN [k \in 1..Len(bars) |-> Mirror(bars[k])]
                                 ELSE bars)
    /\ timeframe = "15m"
    /\ leftLen = 1 /\ rightLen = 1
    /\ swings = DetectSwings(candles, leftLen, rightLen)
    /\ levels = DetectLiquiditySweeps(candles, timeframe, leftLen, rightLen)
    /\ level = NoLevel /\ swingK = 0 /\ scanI = 0
    /\ minSizePercent \in {Frac(3, 100), Frac(5, 100)}
    /\ fvgs = <<>> /\ fvgK = 0 /\ fillI = 0
    /\ fvgSetups = <<>>
    /\ IdleAgents /\ IdleCouncil /\ IdleBacktest /\ IdleOrderBlocks /\ IdleApp /\ IdleStructure
    /\ IdleMarketData

RunDetectSetups ==
    /\ pc = "detectSweepFVGSetups"
    /\ fvgSetups' = DetectSweepFVGSetups(candles, levels, minSizePercent)
    /\ pc' = "returned"
    /\ UNCHANGED <<swingVars, sweepVars, fvgVars, agentVars, councilVars, backtestVars, obVars,
                   appVars, msVars, mdVars>>

NextSetups == RunDetectSetups

SpecSetups == InitSetups /\ [][NextSetups]_vars

(***************************************************************************)
(* C24: every setup detectSweepFVGSetups returns is derived from a level   *)
(* whose status is SWEPT; its displacement candle is one of the 1 to 5     *)
(* candles that follow the level's sweep candle and has a body larger than *)
(* 0.3% of its open in the direction opposite to the swept side; its       *)
(* direction is SHORT for a swept HIGH and LONG for a swept LOW.           *)
(***************************************************************************)
C24_SetupsFollowSweeps ==
    pc = "returned" =>
        \A k \in 1..Len(fvgSetups) :
            LET st == fvgSetups[k]
                c == st.displacementCandle
                body == IF st.sweep.type = "HIGH" THEN c.open - c.close ELSE c.close - c.open
            IN  /\ st.sweep.status = "SWEPT"
                /\ \E j \in 1..Len(levels) : levels[j] = st.sweep
                /\ c = At(candles, c.time)
                /\ c.time - st.sweep.sweepTime[1] \in 1..5
                /\ body * 1000 > 3 * c.open
                /\ st.sweep.type \in {"HIGH", "LOW"}
                /\ st.direction = (IF st.sweep.type = "HIGH" THEN "SHORT" ELSE "LONG")

\* Reached: two setups are returned, one for the first candle after the sweep
\* and one for the fifth.
C24_Witness ==
    /\ pc = "returned"
    /\ \E k \in 1..Len(fvgSetups) :
        fvgSetups[k].displacementCandle.time - fvgSetups[k].sweep.sweepTime[1] = 5
    /\ \E k \in 1..Len(fvgSetups) :
        fvgSetups[k].displacementCandle.time - fvgSetups[k].sweep.sweepTime[1] = 1

(***************************************************************************)
(* C25: for every setup detectSweepFVGSetups returns the stop lies on the  *)
(* losing side of the entry: stopLoss > fvgEntry for a SHORT setup and     *)
(* stopLoss < fvgEntry for a LONG setup.                                   *)
(***************************************************************************)
C25_StopBeyondEntry ==
    pc = "returned" =>
        \A k \in 1..Len(fvgSetups) :
            /\ fvgSetups[k].direction = "SHORT"
                => FracLess(fvgSetups[k].fvgEntry, fvgSetups[k].stopLoss)
            /\ fvgSetups[k].direction = "LONG"
                => FracLess(fvgSetups[k].stopLoss, fvgSetups[k].fvgEntry)

(***************************************************************************)
(* C26: for every trade in the log runBacktest returns the realized P&L    *)
(* agrees with the recorded outcome: status SL_HIT implies pnl = -(balance *)
(* before the trade * riskPerTrade / 100), a loss of exactly the risk      *)
(* amount, and status TP1_HIT or TP2_HIT implies pnl > 0.                  *)
(***************************************************************************)
C26_PnlAgreesWithOutcome ==
    \A k \in 1..Len(trades) :
        LET t == trades[k]
            riskAmt == Frac(t.balanceBefore.n * t.riskPercent, t.balanceBefore.d * 100)
        IN  /\ t.status = "SL_HIT" => FracEq(t.pnl, Frac(-riskAmt.n, riskAmt.d))
            /\ t.status \in {"TP1_HIT", "TP2_HIT"} => IsPositive(t.pnl)

(***************************************************************************)
(* C27: when the five evaluators are all run for the same candidate        *)
(* direction d, as the live council memo runs them, runCouncil's direction *)
(* equals d: it is never null and never the opposite direction, whatever   *)
(* the Risk evaluator's bullish flag is, the hard gate tripped or not.     *)
(***************************************************************************)
C27_CouncilKeepsDirection ==
    appCouncil # Null =>
        /\ appCouncil.dir \in Directions
        /\ \A k \in {1, 2, 3, 5} :
            appCouncil.council.agents[k].bullish = (appCouncil.dir = "LONG")
        /\ appCouncil.council.direction = appCouncil.dir

\* Reached: a SHORT council whose Risk signal is bullish, after a LONG
\* trade was recorded.
C27_Witness ==
    /\ appCouncil # Null
    /\ appCouncil.dir = "SHORT"
    /\ appCouncil.council.agents[4].bullish
    /\ appCouncil.council.direction = "SHORT"
    /\ \E k \in 1..Len(appTrades) : appTrades[k].direction = "LONG"

(***************************************************************************)
(* hooks/useMarketData.ts: useMarketData                                   *)
(***************************************************************************)
\* fetchCandles(sym, tf, 500)
RestLimit == 500

\* bybitFetchCandles(sym, tf, 300)
BybitLimit == 300

\* prev.slice(-499)
KeepLast == 499

\* The candles a REST load returns: the last n intervals up to the one the
\* exchange is in.  A candle is its open time and its close.
RestCandles(n, now) == [k \in 1..n |-> [time |-> now - n + k, close |-> 0]]

\* prev.slice(0, -1)
DropLast(prev) == SubSeq(prev, 1, Len(prev) - 1)

\* prev.slice(-n)
SliceLast(prev, n) == SubSeq(prev, Max(1, Len(prev) - n + 1), Len(prev))

\* The updater of setCandles in the kline branch of ws.onmessage; closed is k.x.
OnKline(prev, candle, closed) ==
    IF prev # <<>> /\ prev[Len(prev)].time = candle.time
        THEN DropLast(prev) \o <<candle>>
    ELSE IF closed THEN SliceLast(prev, KeepLast) \o <<candle>>
    ELSE DropLast(prev) \o <<candle>>

\* connectWS: nothing when the hook is not active, else a new socket on the
\* streams of symRef, kept in wsRef.
ConnectWS ==
    IF activeRef
        THEN /\ sockets' = Append(sockets, [state |-> "CONNECTING", sym |-> symRef])
             /\ wsRef' = Len(sockets) + 1
        ELSE UNCHANGED <<sockets, wsRef>>

\* The sockets with the ready state st.
InState(st) == {k \in 1..Len(sockets) : sockets[k].state = st}

\* The hook after the first render and its effects: the refs set, the buffer
\* emptied, loadRest() awaiting.
InitMarketData ==
    /\ pc = "useMarketData"
    /\ mounted = TRUE /\ symbol = 1 /\ activeRef = TRUE /\ symRef = 1
    /\ wsRef = 0 /\ reconnRef = 0 /\ sockets = <<>> /\ loads = {1} /\ timers = {}
    /\ connected = FALSE
    /\ klineTime = RestLimit
    /\ candles = <<>> /\ leftLen = 0 /\ rightLen = 0 /\ swings = <<>>
    /\ IdleSweeps /\ IdleFvgs /\ IdleAgents /\ IdleCouncil /\ IdleBacktest /\ IdleOrderBlocks
    /\ IdleApp /\ IdleStructure /\ fvgSetups = <<>>

MdOthers ==
    <<pc, leftLen, rightLen, swings, sweepVars, fvgVars, agentVars, councilVars, backtestVars,
      obVars, appVars, msVars, fvgSetups>>

\* The cleanup of the mount effect.  close() on a socket not yet closed
\* starts the closing handshake; onclose comes later.
Cleanup(socks) ==
    IF wsRef # 0 /\ socks[wsRef].state \in {"CONNECTING", "OPEN"}
        THEN [socks EXCEPT ![wsRef].state = "CLOSING"]
        ELSE socks

\* symbol or timeframe changes: the cleanup of the effect, then the effect.
MdChange ==
    /\ mounted
    /\ symbol < MaxEffects
    /\ symbol' = symbol + 1
    /\ timers' = timers \ {reconnRef}
    /\ sockets' = Cleanup(sockets)
    /\ activeRef' = TRUE
    /\ symRef' = symbol + 1
    /\ candles' = <<>>
    /\ loads' = loads \cup {symbol + 1}
    /\ UNCHANGED <<mounted, wsRef, reconnRef, connected, klineTime, MdOthers>>

\* The component unmounts: the cleanup alone.
MdUnmount ==
    /\ mounted
    /\ mounted' = FALSE
    /\ activeRef' = FALSE
    /\ timers' = timers \ {reconnRef}
    /\ sockets' = Cleanup(sockets)
    /\ UNCHANGED <<symbol, symRef, wsRef, reconnRef, loads, connected, klineTime, candles,
                   MdOthers>>

\* A loadRest() of the mount effect settles: Binance answers, or Bybit does,
\* or neither; then connectWS.
MdRestDone ==
    /\ \E g \in loads :
        /\ loads' = loads \ {g}
        /\ \E answer \in {"binance", "bybit", "failed"} :
            candles' = CASE answer = "binance" -> RestCandles(RestLimit, klineTime)
                         [] answer = "bybit" -> RestCandles(BybitLimit, klineTime)
                         [] OTHER -> candles
    /\ Len(sockets) < MaxSockets
    /\ ConnectWS
    /\ UNCHANGED <<mounted, symbol, activeRef, symRef, reconnRef, timers, connected, klineTime,
                   MdOthers>>

\* ws.onopen
MdOpen ==
    /\ \E k \in InState("CONNECTING") : sockets' = [sockets EXCEPT ![k].state = "OPEN"]
    /\ connected' = TRUE
    /\ UNCHANGED <<mounted, symbol, activeRef, symRef, wsRef, reconnRef, loads, timers,
                   klineTime, candles, MdOthers>>

\* ws.onclose: the connection is lost, or the closing handshake ends.  The
\* timer is named after the socket that sets it.
MdClose ==
    /\ \E k \in InState("CONNECTING") \cup InState("OPEN") \cup InState("CLOSING") :
        /\ sockets' = [sockets EXCEPT ![k].state = "CLOSED"]
        /\ IF activeRef
            THEN timers' = timers \cup {k} /\ reconnRef' = k
            ELSE UNCHANGED <<timers, reconnRef>>
    /\ connected' = FALSE
    /\ UNCHANGED <<mounted, symbol, activeRef, symRef, wsRef, loads, klineTime, candles,
                   MdOthers>>

\* A reconnect timer fires: connectWS.
MdReconnect ==
    /\ \E t \in timers : timers' = timers \ {t}
    /\ Len(sockets) < MaxSockets
    /\ ConnectWS
    /\ UNCHANGED <<mounted, symbol, activeRef, symRef, reconnRef, loads, connected, klineTime,
                   candles, MdOthers>>

\* ws.onmessage with a kline: of the interval the exchange is in or of the
\* next one, closed or not.
MdKline ==
    /\ InState("OPEN") # {}
    /\ \E t \in {klineTime, klineTime + 1}, close \in {1, 2}, closed \in BOOLEAN :
        /\ t <= RestLimit + MaxKlineTicks
        /\ klineTime' = t
        /\ candles' = OnKline(candles, [time |-> t, close |-> close], closed)
    /\ UNCHANGED <<mounted, symbol, activeRef, symRef, wsRef, reconnRef, sockets, loads, timers,
                   connected, MdOthers>>

NextMarketData ==
    \/ MdChange
    \/ MdUnmount
    \/ MdRestDone
    \/ MdOpen
    \/ MdClose
    \/ MdReconnect
    \/ MdKline

SpecMarketData == InitMarketData /\ [][NextMarketData]_vars

(***************************************************************************)
(* C29: useMarketData holds at most one open WebSocket at any time, and    *)
(* after unmount or after a symbol/timeframe change no socket of the       *)
(* previous subscription stays open or is reconnected, under every         *)
(* interleaving of REST load completion, socket open and close events, the *)
(* reconnect timer and effect cleanup.                                     *)
(***************************************************************************)
C29_Live == InState("CONNECTING") \cup InState("OPEN")

C29_AtMostOneOpen == Cardinality(InState("OPEN")) <= 1

C29_NoneOfThePrevious ==
    /\ ~ mounted => C29_Live = {}
    /\ \A k \in C29_Live : sockets[k].sym = symbol

\* The onclose of a socket the cleanup closed sets no reconnect timer.
C29_NoReconnectAfterCleanup ==
    \A k \in InState("CLOSING") : sockets'[k].state = "CLOSED" => timers' = timers

C29_OneSocket ==
    /\ [](C29_AtMostOneOpen /\ C29_NoneOfThePrevious)
    /\ [][C29_NoReconnectAfterCleanup]_vars

(***************************************************************************)
(* C30: under any sequence of kline messages with non-decreasing candle    *)
(* times the live candle buffer keeps strictly increasing candle times and *)
(* at most 500 entries, and an update for a new interval never overwrites  *)
(* or removes the candle of the previous interval: only the entry with the *)
(* same time is replaced, and older candles leave only by eviction from    *)
(* the front at the 500 cap.                                               *)
(***************************************************************************)
C30_Increasing == \A k \in 1..(Len(candles) - 1) : candles[k].time < candles[k + 1].time

\* The step handles a kline message that changes the buffer.
C30_Message == loads' = loads /\ symbol' = symbol /\ candles' # candles

\* Every candle of another time than the message's is kept, but for the
\* oldest when the buffer is full.
C30_OthersKept ==
    C30_Message =>
        \A k \in 1..Len(candles) :
            \/ candles[k].time = candles'[Len(candles')].time
            \/ \E j \in 1..Len(candles') : candles'[j] = candles[k]
            \/ k = 1 /\ Len(candles) = RestLimit

C30_BufferKeepsIntervals ==
    /\ [](C30_Increasing /\ Len(candles) <= RestLimit)
    /\ [][C30_OthersKept]_vars

=============================================================================
